---- MODULE Spec2Model ----
(***************************************************************************)
(* Audio fingerprint signature engine of vibeSync:                         *)
(*   src/fingerprinting/signatureFormat.py  (signature object, codec)      *)
(*   src/fingerprinting/algorithm.py        (ring buffers, generator)      *)
(*                                                                         *)
(* These specifications share the variables below:                         *)
(*   SpecCodec   encode_to_binary / decode_from_binary on built signatures *)
(*               and on encoded messages altered in flight                 *)
(*   Spec        the SignatureGenerator driven by feed_input and           *)
(*               get_next_signature, each call in one step                 *)
(*   SpecSteps   the same with get_next_signature one loop turn at a time  *)
(*   SpecLong    the same on one clip that takes the frame rings round     *)
(*   SpecPeak    the peak the recognizer makes of one candidate bin        *)
(*   SpecRing    the RingBuffer class on its own                           *)
(*   SpecSpread  do_peak_spreading on rings whose slots refer to objects   *)
(*                                                                         *)
(* Python integers are unbounded and several wire fields use all 32 bits,  *)
(* so such integers are kept as pairs <<hi, lo>> in base 65536 ("wide"     *)
(* integers, value hi * 65536 + lo with lo in 0..65535; hi may be          *)
(* negative).  Byte strings are sequences over 0..255.                     *)
(***************************************************************************)
EXTENDS Integers, Sequences, FiniteSets, TLC

\***************************************************************************
\* Wide integers and bytes
\***************************************************************************

B16 == 256 * 256

W(n) == <<n \div B16, n % B16>>

WNorm(hi, lo) == <<hi + (lo \div B16), lo % B16>>

WAdd(a, b) == WNorm(a[1] + b[1], a[2] + b[2])

WSub(a, b) == WNorm(a[1] - b[1], a[2] - b[2])

WLess(a, b) == a[1] < b[1] \/ (a[1] = b[1] /\ a[2] < b[2])

WLeq(a, b) == a = b \/ WLess(a, b)

\* the plain integer of a wide integer known to be small
WInt(a) == a[1] * B16 + a[2]

WIsU32(a) == a[1] >= 0 /\ a[1] < B16

\* c_uint32 assignment keeps the low 32 bits
WWrap32(a) == <<a[1] % B16, a[2]>>

\* int.to_bytes(k, 'little') of a wide integer in range
WToBytes(a, k) ==
    LET all == <<a[2] % 256, a[2] \div 256, a[1] % 256, a[1] \div 256>>
    IN  SubSeq(all, 1, k)

\* int.from_bytes(bs, 'little') for at most four bytes (a short read gives
\* fewer bytes and a smaller number)
WFromBytes(bs) ==
    LET b(i) == IF i <= Len(bs) THEN bs[i] ELSE 0
    IN  <<b(3) + 256 * b(4), b(1) + 256 * b(2)>>

Min(a, b) == IF a < b THEN a ELSE b

Max(a, b) == IF a > b THEN a ELSE b

\* BytesIO.read(n) at offset pos (0-based) of data: a short read is silent
ReadAt(data, pos, n) ==
    SubSeq(data, pos + 1, Min(Len(data), pos + n))

Zeros(n) == [i \in 1..n |-> 0]

\***************************************************************************
\* binascii.crc32: the IEEE CRC-32, table driven, on 32-bit words kept as
\* four bytes <<b0, b1, b2, b3>> (little-endian).
\***************************************************************************

RECURSIVE XorBits(_, _, _)
XorBits(a, b, n) ==
    IF n = 0 THEN 0
    ELSE ((a + b) % 2) + 2 * XorBits(a \div 2, b \div 2, n - 1)

XorTab == [a \in 0..255 |-> [b \in 0..255 |-> XorBits(a, b, 8)]]

Xor8(a, b) == XorTab[a][b]

\* one step of the bitwise CRC on a wide word: shift right, xor the
\* reflected polynomial 0xEDB88320 when the bit shifted out was set
CrcShift(w) ==
    LET hi == w[1] \div 2
        lo == (w[2] \div 2) + (w[1] % 2) * 32768
    IN  IF w[2] % 2 = 1
        THEN <<XorBits(hi, 60856, 16), XorBits(lo, 33568, 16)>>
        ELSE <<hi, lo>>

RECURSIVE CrcShiftN(_, _)
CrcShiftN(w, n) == IF n = 0 THEN w ELSE CrcShiftN(CrcShift(w), n - 1)

CrcTab == [i \in 0..255 |-> WToBytes(CrcShiftN(<<0, i>>, 8), 4)]

CrcStep(c, byte) ==
    LET t == CrcTab[Xor8(c[1], byte)]
    IN  <<Xor8(c[2], t[1]), Xor8(c[3], t[2]), Xor8(c[4], t[3]), t[4]>>

RECURSIVE CrcFold(_, _, _)
CrcFold(c, data, i) ==
    IF i > Len(data) THEN c
    ELSE LET n == CrcStep(c, data[i])
         IN  IF n[1] \in 0..255 THEN CrcFold(n, data, i + 1) ELSE n

\* crc32(data) & 0xffffffff, as the four bytes of its little-endian form
crc32(data) ==
    LET c == CrcFold(<<255, 255, 255, 255>>, data, 1)
    IN  <<Xor8(c[1], 255), Xor8(c[2], 255), Xor8(c[3], 255), Xor8(c[4], 255)>>

\***************************************************************************
\* signatureFormat.py: enumerations, constants, the signature object
\***************************************************************************

\* class SampleRate: sample rate in Hz -> 3-bit id on the wire
SampleRate ==
    (8000 :> 1) @@ (11025 :> 2) @@ (16000 :> 3) @@
    (32000 :> 4) @@ (44100 :> 5) @@ (48000 :> 6)

\* SampleRate(id).name.strip('_'): the rate of an id, for ids the enum has
SampleRateOfId(id) == CHOOSE r \in DOMAIN SampleRate : SampleRate[r] = id

\* class FrequencyBand: the tags the enum accepts (_0_250 = -1 included)
FrequencyBand == {-1, 0, 1, 2, 3}

HEADER_SIZE == 48

\* 0xcafe2580, 0x94119c00, 0x40000000, 0x60030040 as wide integers
MAGIC1 == <<51966, 9600>>

MAGIC2 == <<37905, 39936>>

TLV_TYPE_FIXED == <<16384, 0>>

BAND_ID_OFFSET == <<24579, 64>>

\* (15 << 19) + 0x40000
FIXED_VALUE == W(15 * 524288 + 262144)

FFT_PASS_MARKER == 255

\* sample_rate_hz * 0.24 is a whole number for each of the six rates
DividedSampleRate(rate) == (rate * 24) \div 100

\* class FrequencyPeak
FrequencyPeak(pass, magnitude, bin, rate) ==
    [fft_pass_number |-> pass, peak_magnitude |-> magnitude,
     corrected_peak_frequency_bin |-> bin, sample_rate_hz |-> rate]

\* FrequencyPeak.get_frequency_hz: bin * (sample_rate_hz / 2 / 1024 / 64),
\* kept as the fraction num / den
get_frequency_hz(peak) ==
    [num |-> peak.corrected_peak_frequency_bin * peak.sample_rate_hz,
     den |-> 2 * 1024 * 64]

\* class DecodedMessage; the band map is a function on the bands present
DecodedMessage(rate, n, bands) ==
    [sample_rate_hz |-> rate, number_samples |-> n,
     frequency_band_to_sound_peaks |-> bands]

EmptyBands == [b \in {} |-> <<>>]

\* dict assignment d[band] = peaks
SetBand(bands, band, peaks) ==
    [b \in (DOMAIN bands) \cup {band} |-> IF b = band THEN peaks ELSE bands[b]]

TotalPeaks(bands) ==
    LET RECURSIVE Sum(_)
        Sum(S) == IF S = {} THEN 0
                  ELSE LET b == CHOOSE x \in S : TRUE
                       IN  Len(bands[b]) + Sum(S \ {b})
    IN  Sum(DOMAIN bands)

\***************************************************************************
\* DecodedMessage.encode_to_binary.  A result is [ok, bytes]; ok = FALSE is
\* the Python exception (OverflowError, ValueError, AttributeError) that
\* leaves the caller without bytes.
\***************************************************************************

EncFail == [ok |-> FALSE, bytes |-> <<>>]

EncOk(bs) == [ok |-> TRUE, bytes |-> bs]

\* line 281: a jump of FFT_PASS_MARKER passes or more needs a marker
NeedsMarkerAbove(fft_pass_number, running) ==
    WLess(W(FFT_PASS_MARKER), WSub(fft_pass_number, running))

NeedsMarkerFromHalf(fft_pass_number, running) ==
    ~WLess(WSub(fft_pass_number, running), W(128))

NeedsMarker(fft_pass_number, running) ==
    ~WLess(WSub(fft_pass_number, running), W(FFT_PASS_MARKER))

\* line 289: bytes([delta]) is the one byte of a delta in 0..255 and raises
\* ValueError for any other (no byte)
DeltaByteWrapped(delta) == <<delta[2] % 256>>

DeltaByte(delta) ==
    IF delta[1] = 0 /\ delta[2] <= 255 THEN <<delta[2]>> ELSE <<>>

\* the peaks of one band: the loop of lines 279-297, from peak i on, with
\* the running fft_pass_number and the bytes written so far
RECURSIVE EncodeBandPeaks(_, _, _, _)
EncodeBandPeaks(peaks, i, running, acc) ==
    IF i > Len(peaks) THEN EncOk(acc)
    ELSE
      LET peak   == peaks[i]
          jump   == NeedsMarker(peak.fft_pass_number, running)
          marker == IF jump
                    THEN <<FFT_PASS_MARKER>> \o WToBytes(peak.fft_pass_number, 4)
                    ELSE <<>>
          base   == IF jump THEN peak.fft_pass_number ELSE running
          delta  == WSub(peak.fft_pass_number, base)
      IN  IF \/ (jump /\ ~WIsU32(peak.fft_pass_number))
             \/ DeltaByte(delta) = <<>>
             \/ peak.peak_magnitude < 0 \/ peak.peak_magnitude > 65535
             \/ peak.corrected_peak_frequency_bin < 0
             \/ peak.corrected_peak_frequency_bin > 65535
          THEN EncFail
          ELSE EncodeBandPeaks(peaks, i + 1, peak.fft_pass_number,
                 acc \o marker \o DeltaByte(delta)
                     \o WToBytes(W(peak.peak_magnitude), 2)
                     \o WToBytes(W(peak.corrected_peak_frequency_bin), 2))

\* one band section: TLV header, payload, padding to a 4-byte boundary
EncodeBandSectionUnpadded(band, payload) ==
    WToBytes(WAdd(BAND_ID_OFFSET, W(band)), 4)
      \o WToBytes(W(Len(payload)), 4)
      \o payload

EncodeBandSection(band, payload) ==
    WToBytes(WAdd(BAND_ID_OFFSET, W(band)), 4)
      \o WToBytes(W(Len(payload)), 4)
      \o payload
      \o Zeros((4 - (Len(payload) % 4)) % 4)

\* sorted(...items()) at line 272: the smallest band tag comes next
LargestBand(todo) == CHOOSE b \in todo : \A c \in todo : b >= c

NextBand(todo) == CHOOSE b \in todo : \A c \in todo : b <= c

\* _encode_frequency_peaks: the bands in sorted() order, empty lists skipped
RECURSIVE encode_frequency_peaks(_, _, _)
encode_frequency_peaks(bands, todo, acc) ==
    IF todo = {} THEN EncOk(acc)
    ELSE
      LET band == NextBand(todo)
          rest == todo \ {band}
      IN  IF bands[band] = <<>>
          THEN encode_frequency_peaks(bands, rest, acc)
          ELSE LET r == EncodeBandPeaks(bands[band], 1, W(0), <<>>)
               IN  IF ~r.ok THEN EncFail
                   ELSE encode_frequency_peaks(bands, rest,
                          acc \o EncodeBandSection(band, r.bytes))

\* the 40 header bytes after magic1 and crc32, for a body of the given size
HeaderTailPlainSamples(size, rate, number_samples) ==
    WToBytes(W(size), 4)
      \o WToBytes(MAGIC2, 4)
      \o Zeros(12)
      \o <<0, 0, 0, SampleRate[rate] * 8>>
      \o Zeros(8)
      \o WToBytes(WWrap32(number_samples), 4)
      \o WToBytes(FIXED_VALUE, 4)

HeaderTailRateAfterVoid2(size, rate, number_samples) ==
    WToBytes(W(size), 4)
      \o WToBytes(MAGIC2, 4)
      \o Zeros(16)
      \o <<0, 0, 0, SampleRate[rate] * 8>>
      \o Zeros(4)
      \o WToBytes(WWrap32(WAdd(number_samples, W(DividedSampleRate(rate)))), 4)
      \o WToBytes(FIXED_VALUE, 4)

HeaderTail(size, rate, number_samples) ==
    WToBytes(W(size), 4)
      \o WToBytes(MAGIC2, 4)
      \o Zeros(12)
      \o <<0, 0, 0, SampleRate[rate] * 8>>
      \o Zeros(8)
      \o WToBytes(WWrap32(WAdd(number_samples, W(DividedSampleRate(rate)))), 4)
      \o WToBytes(FIXED_VALUE, 4)

encode_to_binary(msg) ==
    IF msg.sample_rate_hz \notin DOMAIN SampleRate THEN EncFail
    ELSE
      LET c == encode_frequency_peaks(msg.frequency_band_to_sound_peaks,
                 DOMAIN msg.frequency_band_to_sound_peaks, <<>>)
      IN  IF ~c.ok THEN EncFail
          ELSE
            LET size == Len(c.bytes) + 8
                body == HeaderTail(size, msg.sample_rate_hz, msg.number_samples)
                          \o WToBytes(TLV_TYPE_FIXED, 4)
                          \o WToBytes(W(size), 4)
                          \o c.bytes
            IN  EncOk(WToBytes(MAGIC1, 4) \o crc32(body) \o body)

\***************************************************************************
\* DecodedMessage.decode_from_binary.  A result is [err, msg]: err = "ok"
\* with the decoded message, or the kind of the exception raised (the
\* failed assert, or the ValueError of an enum constructor) and no message.
\***************************************************************************

NoMessage == [none |-> TRUE]

DecFail(kind) == [err |-> kind, msg |-> NoMessage]

DecOk(m) == [err |-> "ok", msg |-> m]

\* _decode_band_peaks: the loop of lines 171-207 over one band's payload,
\* from offset pos (0-based), with the running fft_pass_number
RECURSIVE decode_band_peaks(_, _, _, _, _)
decode_band_peaks(buf, pos, fft_pass_number, rate, peaks) ==
    IF pos >= Len(buf) THEN peaks
    ELSE
      LET fft_pass_offset == buf[pos + 1]
      IN  IF fft_pass_offset = FFT_PASS_MARKER
          THEN decode_band_peaks(buf, Min(Len(buf), pos + 5),
                 WFromBytes(ReadAt(buf, pos + 1, 4)), rate, peaks)
          ELSE
            LET pass == WAdd(fft_pass_number, W(fft_pass_offset))
                mag  == WInt(WFromBytes(ReadAt(buf, pos + 1, 2)))
                bin  == WInt(WFromBytes(ReadAt(buf, Min(Len(buf), pos + 3), 2)))
            IN  decode_band_peaks(buf, Min(Len(buf), pos + 5), pass, rate,
                  Append(peaks, FrequencyPeak(pass, mag, bin, rate)))

\* FrequencyBand(tag) at line 161 raises ValueError unless the enum has the tag
IsFrequencyBandUpTo4(tag) == \E b \in FrequencyBand \cup {4} : tag = W(b)

IsFrequencyBand(tag) == \E b \in FrequencyBand : tag = W(b)

\* _decode_frequency_peaks: the loop of lines 147-164 over the band
\* sections, from offset pos (0-based) of the message
RECURSIVE decode_frequency_peaks(_, _, _, _)
decode_frequency_peaks(data, pos, rate, bands) ==
    LET tlv_header == ReadAt(data, pos, 8)
    IN  IF tlv_header = <<>> THEN DecOk(bands)
        ELSE
          LET frequency_band_id == WFromBytes(SubSeq(tlv_header, 1, Min(4, Len(tlv_header))))
              frequency_peaks_size == WFromBytes(SubSeq(tlv_header, 5, Len(tlv_header)))
              start   == pos + Len(tlv_header)
              left    == Len(data) - start
              take    == IF WLess(W(left), frequency_peaks_size)
                         THEN left ELSE WInt(frequency_peaks_size)
              padding == (4 - (frequency_peaks_size[2] % 4)) % 4
              next    == Min(Len(data), start + take + padding)
              tag     == WSub(frequency_band_id, BAND_ID_OFFSET)
          IN  IF ~IsFrequencyBand(tag)
              THEN DecFail("UnknownBand")
              ELSE decode_frequency_peaks(data, next, rate,
                     SetBand(bands, WInt(tag),
                       decode_band_peaks(ReadAt(data, start, take), 0, W(0), rate, <<>>)))

\* RawSignatureHeader read from a buffer that may be shorter than 48 bytes:
\* the fields not covered stay zero
HeaderField(data, offset) ==
    WFromBytes([i \in 1..4 |-> IF offset + i <= Len(data) THEN data[offset + i] ELSE 0])

HeaderCrc(data) ==
    [i \in 1..4 |-> IF 4 + i <= Len(data) THEN data[4 + i] ELSE 0]

\* the four asserts of lines 127-130
AssertMagic1(data) == HeaderField(data, 0) = MAGIC1

AssertSize(data) == HeaderField(data, 8) = W(Len(data) - HEADER_SIZE)

AssertCrc32Skipped(data) == Len(data) >= 0

AssertCrc32(data) == crc32(SubSeq(data, 9, Len(data))) = HeaderCrc(data)

AssertMagic2Skipped(data) == Len(data) >= 0

AssertMagic2(data) == HeaderField(data, 12) = MAGIC2

decode_from_binary(data) ==
    LET size == W(Len(data) - HEADER_SIZE)
        id   == HeaderField(data, 28)[1] \div 2048
    IN  IF ~AssertMagic1(data) THEN DecFail("InvalidMagic")
        ELSE IF ~AssertSize(data) THEN DecFail("SizeMismatch")
        ELSE IF ~AssertCrc32(data) THEN DecFail("ChecksumMismatch")
        ELSE IF ~AssertMagic2(data) THEN DecFail("InvalidMagic")
        ELSE IF \A r \in DOMAIN SampleRate : SampleRate[r] # id
             THEN DecFail("UnknownSampleRate")
        ELSE IF WFromBytes(ReadAt(data, 48, 4)) # TLV_TYPE_FIXED
             THEN DecFail("FixedTlvMismatch")
        ELSE IF WFromBytes(ReadAt(data, 52, 4)) # size
             THEN DecFail("FixedTlvMismatch")
        ELSE
          LET rate == SampleRateOfId(id)
              r    == decode_frequency_peaks(data, 56, rate, EmptyBands)
          IN  IF r.err # "ok" THEN r
              ELSE DecOk(DecodedMessage(rate,
                     WSub(HeaderField(data, 40), W(DividedSampleRate(rate))),
                     r.msg))

\***************************************************************************
\* algorithm.py, scaled.  The source processes 128-sample hops through a
\* 2048-sample window into 1025 bins and caps a signature at 30 s and 255
\* peaks; the model keeps the structure and shrinks these sizes.  The
\* frame rings keep their 256 slots and the recognizer its offsets.
\***************************************************************************

\* samples per step (128 in the source)
HopSize == 2

\* hops per window: the sample ring holds 16 hops (2048 samples) in the source
WindowHops == 2

SampleRingSize == HopSize * WindowHops

\* bins per frame (1025 in the source)
NumBins == 23

\* the time cap in hops: MAX_TIME_SECONDS * SAMPLE_RATE is 3750 hops
MaxTimeHops == 53

\* MAX_PEAKS (255 in the source)
MaxPeaks == 1

FrameRingSize == 256

SAMPLE_RATE == 16000

\* magnitudes are whole multiples of 1e-10: the floor of do_fft is 1 and
\* the recognizer's 1/64 is 156250000
MagnitudeFloor == 1

PeakFloor == 156250000

\* list(...): the elements, evaluated, in order
list(f) == f \o <<>>

\* class RingBuffer; slot i of the Python list is buffer[i + 1]
RingBuffer(buffer_size, default_value) ==
    [buffer      |-> list([i \in 1..buffer_size |-> default_value]),
     position    |-> 0,
     buffer_size |-> buffer_size,
     num_written |-> 0]

append_advancing_first(ring, value) ==
    [ring EXCEPT !.buffer[((ring.position + 1) % ring.buffer_size) + 1] = value,
                 !.position = (ring.position + 1) % ring.buffer_size,
                 !.num_written = ring.num_written + 1]

append(ring, value) ==
    [ring EXCEPT !.buffer[ring.position + 1] = value,
                 !.position = (ring.position + 1) % ring.buffer_size,
                 !.num_written = ring.num_written + 1]

\* __getitem__ with an integer index
getitem(ring, index) == ring.buffer[(index % ring.buffer_size) + 1]

\* __getitem__ with a slice start:stop
getslice(ring, start, stop) ==
    list([k \in 1..Max(0, stop - start) |->
            ring.buffer[((start + k - 1) % ring.buffer_size) + 1]])

\* a frame holds bin p at index p + 1
Bin(frame, p) == frame[p + 1]

ZeroFrame == list([k \in 1..NumBins |-> 0])

\* the collaborator outside the repository: numpy's
\* (|rfft(HANNING_MATRIX * excerpt)|^2) / (1 << 17).  A sample v > 0 stands
\* for a tone at bin v and 0 for silence; the power of a bin grows with the
\* square of the number of windowed samples that carry its tone, and is 0
\* where no sample does.
TonePower == 20000000

Spectrum(excerpt) ==
    list([k \in 1..NumBins |->
            LET n == Cardinality({j \in 1..Len(excerpt) :
                                    excerpt[j] = k - 1 /\ k - 1 > 0})
            IN  n * n * TonePower])

\* log(max(1 / 64, f)) * 1477.3 + 6144 in hundredths, for the powers the
\* spectrum above can take
LogMagnitude(f) ==
    LET n == CHOOSE c \in 0..10 : c * c * TonePower = f \/ (c = 0 /\ f < PeakFloor)
    IN  <<8, 8, 8, 20912, 105911, 171841, 225709,
          271255, 310708, 345508, 376638>>[n + 1]

\* lines 148-152: the floored power spectrum of the windowed excerpt
Magnitudes(excerpt) ==
    LET power == Spectrum(excerpt)
    IN  list([k \in 1..NumBins |-> Max(power[k], MagnitudeFloor)])

\* lines 142-145: the ring read from the cursor to its end, then from its
\* start to the cursor
ExcerptFromStart(ring) ==
    getslice(ring, 0, ring.buffer_size)

Excerpt(ring) ==
    getslice(ring, ring.position, ring.buffer_size) \o getslice(ring, 0, ring.position)

\* do_fft: store the hop in the sample ring, window it, transform it
do_fft_cursor_only(g, batch) ==
    LET ring    == g.ring_buffer_of_samples
        pos     == ring.position
        size    == ring.buffer_size
        end_pos == (pos + Len(batch)) % size
        stored  ==
            IF end_pos > pos
            THEN SubSeq(ring.buffer, 1, pos) \o batch
                   \o SubSeq(ring.buffer, end_pos + 1, size)
            ELSE LET first_part == size - pos
                 IN  SubSeq(batch, first_part + 1, Len(batch))
                       \o SubSeq(ring.buffer, end_pos + 1, pos)
                       \o SubSeq(batch, 1, first_part)
        ring2   == [ring EXCEPT !.buffer = stored,
                                !.position = end_pos]
        excerpt_from_ring_buffer == Excerpt(ring2)
        fft_results == Magnitudes(excerpt_from_ring_buffer)
    IN  [g EXCEPT !.ring_buffer_of_samples = ring2,
                  !.fft_outputs = append(g.fft_outputs, fft_results)]

do_fft(g, batch) ==
    LET ring    == g.ring_buffer_of_samples
        pos     == ring.position
        size    == ring.buffer_size
        end_pos == (pos + Len(batch)) % size
        stored  ==
            IF end_pos > pos
            THEN SubSeq(ring.buffer, 1, pos) \o batch
                   \o SubSeq(ring.buffer, end_pos + 1, size)
            ELSE LET first_part == size - pos
                 IN  SubSeq(batch, first_part + 1, Len(batch))
                       \o SubSeq(ring.buffer, end_pos + 1, pos)
                       \o SubSeq(batch, 1, first_part)
        ring2   == [ring EXCEPT !.buffer = stored,
                                !.position = end_pos,
                                !.num_written = ring.num_written + Len(batch)]
        excerpt_from_ring_buffer == Excerpt(ring2)
        fft_results == Magnitudes(excerpt_from_ring_buffer)
    IN  [g EXCEPT !.ring_buffer_of_samples = ring2,
                  !.fft_outputs = append(g.fft_outputs, fft_results)]

\* frequency-domain spreading: positions 0 .. NumBins - 3 in turn, in place
RECURSIVE SpreadFrequencyHighestFirst(_, _)
SpreadFrequencyHighestFirst(frame, position) ==
    IF position > NumBins - 3 THEN frame
    ELSE LET above == SpreadFrequencyHighestFirst(frame, position + 1)
         IN  [above EXCEPT ![position + 1] =
                 Max(Bin(above, position),
                     Max(Bin(above, position + 1), Bin(above, position + 2)))]

RECURSIVE SpreadFrequency(_, _)
SpreadFrequency(frame, position) ==
    IF position > NumBins - 3 THEN frame
    ELSE SpreadFrequency(
           [frame EXCEPT ![position + 1] =
               Max(Bin(frame, position),
                   Max(Bin(frame, position + 1), Bin(frame, position + 2)))],
           position + 1)

\* do_peak_spreading; the three earlier slots are distinct slots of the
\* 256-slot ring, so the per-bin running maximum is taken slot by slot
do_peak_spreading_forward_only(g) ==
    LET origin_last_fft == getitem(g.fft_outputs, g.fft_outputs.position - 1)
        spread_last_fft == SpreadFrequency(list(origin_last_fft), 0)
    IN  [g EXCEPT !.spread_ffts_output = append(g.spread_ffts_output, spread_last_fft)]

do_peak_spreading(g) ==
    LET origin_last_fft == getitem(g.fft_outputs, g.fft_outputs.position - 1)
        spread_last_fft == SpreadFrequency(list(origin_last_fft), 0)
        ring == g.spread_ffts_output
        i1   == (ring.position - 1) % ring.buffer_size
        i3   == (ring.position - 3) % ring.buffer_size
        i6   == (ring.position - 6) % ring.buffer_size
        f1   == list([k \in 1..NumBins |-> Max(getitem(ring, i1)[k], spread_last_fft[k])])
        f3   == list([k \in 1..NumBins |-> Max(getitem(ring, i3)[k], f1[k])])
        f6   == list([k \in 1..NumBins |-> Max(getitem(ring, i6)[k], f3[k])])
        smeared == [ring EXCEPT !.buffer[i1 + 1] = f1,
                                !.buffer[i3 + 1] = f3,
                                !.buffer[i6 + 1] = f6]
    IN  [g EXCEPT !.spread_ffts_output = append(smeared, spread_last_fft)]

\***************************************************************************
\* The same two steps on objects.  Python lists and arrays are objects that
\* ring slots refer to, and do_peak_spreading writes through such
\* references; objects is the sequence of frame objects made so far and a
\* reference is an index into it.
\***************************************************************************

\* RingBuffer.__init__, lines 19-23: every slot gets copy(default_value),
\* an object of its own
NewRingSharingDefault(objects, buffer_size, default_value) ==
    [objects |-> Append(objects, default_value),
     ring    |-> RingBuffer(buffer_size, Len(objects) + 1)]

NewRing(objects, buffer_size, default_value) ==
    [objects |-> objects \o list([i \in 1..buffer_size |-> default_value]),
     ring    |-> [RingBuffer(buffer_size, 0) EXCEPT
                    !.buffer = list([i \in 1..buffer_size |-> Len(objects) + i])]]

\* line 166: list(origin_last_fft) is a new object with the same elements
CopyOf(objects, ref) ==
    [objects |-> Append(objects, objects[ref]), ref |-> Len(objects) + 1]

\* line 176: the earlier frames written to, in this order
FormerFftsOldestFirst == <<-6, -3, -1>>

FormerFfts == <<-1, -3, -6>>

\* lines 176-179 for one bin: each former frame in turn takes the running
\* maximum, which then takes its value
RECURSIVE BackSpread(_, _, _, _, _)
BackSpread(objects, spread, position, max_value, k) ==
    IF k > Len(FormerFfts) THEN objects
    ELSE LET idx == (spread.position + FormerFfts[k]) % spread.buffer_size
             former_fft_output == getitem(spread, idx)
             value == Max(Bin(objects[former_fft_output], position), max_value)
         IN  BackSpread([objects EXCEPT ![former_fft_output][position + 1] = value],
                        spread, position, value, k + 1)

\* lines 173-179: the bins 0 .. NumBins - 1 in turn
RECURSIVE SpreadTime(_, _, _, _)
SpreadTime(objects, spread, spread_last_fft, position) ==
    IF position > NumBins - 1 THEN objects
    ELSE LET written == BackSpread(objects, spread, position,
                                   Bin(objects[spread_last_fft], position), 1)
         IN  IF Len(written) >= 0
             THEN SpreadTime(written, spread, spread_last_fft, position + 1)
             ELSE written

\* do_peak_spreading on the two rings of references: [objects, spread]
SpreadObjects(objects, fft, spread) ==
    LET origin_last_fft == getitem(fft, fft.position - 1)
        copy            == CopyOf(objects, origin_last_fft)
        spread_last_fft == copy.ref
        in_frequency    == [copy.objects EXCEPT
                              ![spread_last_fft] = SpreadFrequency(@, 0)]
        in_time         == SpreadTime(in_frequency, spread, spread_last_fft, 0)
    IN  [objects |-> in_time, spread |-> append(spread, spread_last_fft)]

MaxOver(f, S) == CHOOSE m \in {f[x] : x \in S} : \A x \in S : f[x] <= m

\* offsets of the frequency neighbours and of the time neighbours
NeighborOffsets == {-10, -7, -4, -3, 1, 2, 5, 8}

OtherOffsets ==
    {-53, -45} \cup {165 + 7 * k : k \in 0..5} \cup {214 + 7 * k : k \in 0..5}

\* FREQ_BANDS: band tag -> [low, high) in Hz
FREQ_BANDS ==
    (0 :> <<250, 520>>) @@ (1 :> <<520, 1450>>) @@
    (2 :> <<1450, 3500>>) @@ (3 :> <<3500, 5500>>)

\* line 225: the pass number given to the peaks of one recognition
fft_number_of_newest(spread) == spread.num_written - 1

fft_number_from_45(spread) == spread.num_written - 45

fft_number_backwards(spread) == FrameRingSize - spread.num_written

fft_number(spread) == spread.num_written - 46

NoPeak == [found |-> FALSE]

\* lines 232-267: the peak made of a bin that passed the neighbour checks,
\* from its log magnitude and those of the bins before and after it (in
\* hundredths), or none.  Corrected bins are in hundredths, which holds the
\* band limits exactly; frequency_hz = bin * (SAMPLE_RATE / 2 / 1024 / 64)
\* is bin * 125 / 1024, compared without dividing.  last_bin is the 1024
\* of that formula, the last bin of a frame.
MeasurePeak(bin_position, peak_magnitude, peak_magnitude_before, peak_magnitude_after, pass, last_bin) ==
    LET peak_variation_1 ==
            peak_magnitude * 2 - peak_magnitude_before - peak_magnitude_after
        peak_variation_2 ==
            ((peak_magnitude_after - peak_magnitude_before) * 32 * 100)
                \div peak_variation_1
        corrected == bin_position * 64 * 100 + peak_variation_2
        hz_num    == corrected * 125
        hz_den    == last_bin * 100
        bands     == {b \in DOMAIN FREQ_BANDS :
                        /\ FREQ_BANDS[b][1] * hz_den <= hz_num
                        /\ hz_num < FREQ_BANDS[b][2] * hz_den}
    IN  IF peak_variation_1 <= 0 THEN NoPeak
        ELSE IF hz_num < 250 * hz_den THEN NoPeak
        ELSE IF bands = {} THEN NoPeak
        ELSE [found |-> TRUE,
              band  |-> CHOOSE b \in bands : TRUE,
              peak  |-> FrequencyPeak(W(pass),
                                      peak_magnitude \div 100,
                                      corrected \div 100,
                                      SAMPLE_RATE)]

\* the peak of one candidate bin, or none: lines 203-267; the scaled
\* frames end at bin NumBins - 1
PeakAt(g, bin_position) ==
    LET fft    == g.fft_outputs
        spread == g.spread_ffts_output
        fft_minus_46 == getitem(fft, (fft.position - 46) % fft.buffer_size)
        fft_minus_49 == getitem(spread, (spread.position - 49) % spread.buffer_size)
        max_neighbor ==
            MaxOver([o \in NeighborOffsets |-> Bin(fft_minus_49, bin_position + o)],
                    NeighborOffsets)
        max_other_neighbor ==
            MaxOver([o \in OtherOffsets |->
                       Bin(getitem(spread, (spread.position + o) % spread.buffer_size),
                           bin_position - 1)],
                    OtherOffsets)
    IN  IF \/ Bin(fft_minus_46, bin_position) < PeakFloor
           \/ Bin(fft_minus_46, bin_position) < Bin(fft_minus_49, bin_position - 1)
        THEN NoPeak
        ELSE IF Bin(fft_minus_46, bin_position) <= max_neighbor THEN NoPeak
        ELSE IF Bin(fft_minus_46, bin_position) <= max_other_neighbor THEN NoPeak
        ELSE MeasurePeak(bin_position,
                         LogMagnitude(Bin(fft_minus_46, bin_position)),
                         LogMagnitude(Bin(fft_minus_46, bin_position - 1)),
                         LogMagnitude(Bin(fft_minus_46, bin_position + 1)),
                         fft_number(spread), NumBins - 1)

\* do_peak_recognition: the candidate bins 10 .. NumBins - 11 in turn
RECURSIVE RecognizeFrom(_, _, _)
RecognizeFrom(g, bin_position, bands) ==
    IF bin_position > NumBins - 11 THEN bands
    ELSE LET r == PeakAt(g, bin_position)
         IN  RecognizeFrom(g, bin_position + 1,
               IF r.found
               THEN SetBand(bands, r.band,
                      Append(IF r.band \in DOMAIN bands THEN bands[r.band] ELSE <<>>,
                             r.peak))
               ELSE bands)

do_peak_recognition(g) ==
    [g EXCEPT !.next_signature.frequency_band_to_sound_peaks =
        RecognizeFrom(g, 10, g.next_signature.frequency_band_to_sound_peaks)]

do_peak_spreading_and_recognition(g) ==
    LET s == do_peak_spreading(g)
    IN  IF s.spread_ffts_output.num_written >= 46 THEN do_peak_recognition(s) ELSE s

\* process_input on one hop
process_input_uncounted(g, samples) ==
    do_peak_spreading_and_recognition(do_fft(g, samples))

process_input(g, samples) ==
    do_peak_spreading_and_recognition(
        do_fft([g EXCEPT !.next_signature.number_samples = WAdd(@, W(Len(samples)))],
               samples))

\* reset_signature
reset_signature_keeping_spread_ring(g) ==
    [g EXCEPT !.next_signature = DecodedMessage(SAMPLE_RATE, W(0), EmptyBands),
              !.ring_buffer_of_samples = RingBuffer(SampleRingSize, 0),
              !.fft_outputs = RingBuffer(FrameRingSize, ZeroFrame)]

reset_signature(g) ==
    [g EXCEPT !.next_signature = DecodedMessage(SAMPLE_RATE, W(0), EmptyBands),
              !.ring_buffer_of_samples = RingBuffer(SampleRingSize, 0),
              !.fft_outputs = RingBuffer(FrameRingSize, ZeroFrame),
              !.spread_ffts_output = RingBuffer(FrameRingSize, ZeroFrame)]

\* SignatureGenerator.__init__
NewGenerator ==
    reset_signature(
        [input_pending_processing |-> <<>>,
         samples_processed        |-> 0,
         next_signature           |-> NoMessage,
         ring_buffer_of_samples   |-> RingBuffer(SampleRingSize, 0),
         fft_outputs              |-> RingBuffer(FrameRingSize, ZeroFrame),
         spread_ffts_output       |-> RingBuffer(FrameRingSize, ZeroFrame)])

\* the loop condition of get_next_signature, lines 99-102
Unconsumed(g) == Len(g.input_pending_processing) - g.samples_processed

UnderTime(m) == WLess(m.number_samples, W(MaxTimeHops * HopSize))

UnderPeaks(m) == TotalPeaks(m.frequency_band_to_sound_peaks) < MaxPeaks

KeepGoingWhileBothUnmet(g) ==
    /\ Unconsumed(g) >= HopSize
    /\ (UnderTime(g.next_signature) /\ UnderPeaks(g.next_signature))

KeepGoing(g) ==
    /\ Unconsumed(g) >= HopSize
    /\ (UnderTime(g.next_signature) \/ UnderPeaks(g.next_signature))

\* one turn of the while loop of get_next_signature, lines 99-105; nothing
\* happens once the loop condition is false
TurnSkippingAHop(g) ==
    IF ~KeepGoing(g) THEN g
    ELSE LET chunk == SubSeq(g.input_pending_processing,
                             g.samples_processed + 1, g.samples_processed + HopSize)
         IN  [process_input(g, chunk) EXCEPT
                !.samples_processed = g.samples_processed + 2 * HopSize]

TurnAdvancingOneSample(g) ==
    IF ~KeepGoing(g) THEN g
    ELSE LET chunk == SubSeq(g.input_pending_processing,
                             g.samples_processed + 1, g.samples_processed + HopSize)
         IN  [process_input(g, chunk) EXCEPT
                !.samples_processed = g.samples_processed + 1]

Turn(g) ==
    IF ~KeepGoing(g) THEN g
    ELSE LET chunk == SubSeq(g.input_pending_processing,
                             g.samples_processed + 1, g.samples_processed + HopSize)
         IN  [process_input(g, chunk) EXCEPT
                !.samples_processed = g.samples_processed + HopSize]

\* n turns in a row, the first half and then the rest
RECURSIVE Turns(_, _)
Turns(g, n) ==
    IF n = 0 THEN g
    ELSE IF n = 1 THEN Turn(g)
    ELSE LET first == Turns(g, n \div 2)
         IN  IF first.samples_processed >= g.samples_processed
             THEN Turns(first, n - (n \div 2)) ELSE first

\* the while loop: it ends within as many turns as there are pending hops
ProcessPending(g) == Turns(g, Unconsumed(g) \div HopSize)

\* get_next_signature: [result, g] with result None or the signature
None == [none |-> TRUE]

get_next_signature_when_any_pending(g) ==
    IF Unconsumed(g) < 1 THEN [result |-> None, g |-> g]
    ELSE LET done == ProcessPending(g)
         IN  [result |-> done.next_signature, g |-> reset_signature(done)]

get_next_signature(g) ==
    IF Unconsumed(g) < HopSize THEN [result |-> None, g |-> g]
    ELSE LET done == ProcessPending(g)
         IN  [result |-> done.next_signature, g |-> reset_signature(done)]

\* feed_input
feed_input(g, samples) ==
    [g EXCEPT !.input_pending_processing = @ \o samples]

\***************************************************************************
\* State
\***************************************************************************

VARIABLES
    sig,    \* codec: the DecodedMessage handed to encode_to_binary
    enc,    \* codec: what encode_to_binary(sig) returned, or NotYet
    wire,   \* codec: the byte string handed to decode_from_binary
    edit,   \* codec: how wire differs from enc.bytes
    out,    \* codec: what decode_from_binary(wire) returned, or NotYet
    back,   \* codec: what encode_to_binary(out.msg) returned, or NotYet
    input_pending_processing,  \* generator: every sample fed so far
    samples_processed,         \* generator: cursor into the pending samples
    next_signature,            \* generator: the signature under construction
    ring_buffer_of_samples,    \* generator: the sample ring
    fft_outputs,               \* generator: the ring of FFT frames
    spread_ffts_output,        \* generator: the ring of spread frames
    last,                      \* generator: the latest finished call and what it returned
    feeds,                     \* generator: feed_input calls so far
    pc,                        \* generator: where a get_next_signature call stands
    returned_signatures,       \* generator: the signatures returned so far, in order
    candidate,                 \* recognizer: a bin that passed the neighbour checks
    measured,                  \* recognizer: the peak made of it, or NotYet
    signature_objects,         \* generator: the DecodedMessage objects made so far
    next_signature_ref,        \* generator: the one self.next_signature refers to
    returned_refs,             \* generator: the ones handed to the caller, in order
    ring_buffer,               \* ring buffer: a RingBuffer on its own
    appended,                  \* ring buffer: the values appended to it, in order
    read,                      \* ring buffer: the latest ring[index] and its value
    vectors,                   \* spreading: the frame objects made so far
    fft_refs,                  \* spreading: the FFT ring, its slots referring to frames
    spread_refs                \* spreading: the spread ring, likewise

codecVars == <<sig, enc, wire, edit, out, back>>

generatorVars ==
    <<input_pending_processing, samples_processed, next_signature,
      ring_buffer_of_samples, fft_outputs, spread_ffts_output>>

callVars == <<last, feeds, pc, returned_signatures>>

recognizerVars == <<candidate, measured>>

objectVars == <<signature_objects, next_signature_ref, returned_refs>>

ringVars == <<ring_buffer, appended, read>>

heapVars == <<vectors, fft_refs, spread_refs>>

vars ==
    <<codecVars, generatorVars, callVars, recognizerVars, objectVars, ringVars, heapVars>>

NotYet == [pending |-> TRUE]

NoEdit == [kind |-> "none", at |-> 0]

\***************************************************************************
\* Inputs of the codec specifications
\***************************************************************************

\* longest peak list of one band among the inputs
MaxBandPeaks == 2

\* pass numbers on both sides of the 0xFF marker threshold
PassInputs == {0, 254, 255, 509}

PeakInputs(rate) == {FrequencyPeak(W(p), 258, 65534, rate) : p \in PassInputs}

RECURSIVE SeqsUpTo(_, _)
SeqsUpTo(S, n) ==
    IF n = 0 THEN {<<>>}
    ELSE LET shorter == SeqsUpTo(S, n - 1)
         IN  shorter \cup {Append(q, x) : q \in shorter, x \in S}

PeakListInputs(rate) == SeqsUpTo(PeakInputs(rate), MaxBandPeaks)

\* band maps: one band with any input list, possibly a neighbouring band
\* with a list of at most one peak
BandMapInputs(rate) ==
    {EmptyBands}
      \cup {(b :> l) : b \in FrequencyBand, l \in PeakListInputs(rate)}
      \cup UNION {{(b :> l) @@ (c :> s) :
                     c \in FrequencyBand \cap {b - 1, b + 1},
                     l \in PeakListInputs(rate), s \in SeqsUpTo(PeakInputs(rate), 1)} :
                  b \in FrequencyBand}

\* number_samples around the point where the header field wraps
NumberSamplesInputs(rate) ==
    {W(0), W(128),
     WSub(<<B16 - 1, B16 - 1>>, W(DividedSampleRate(rate))),
     WSub(<<B16, 0>>, W(DividedSampleRate(rate))),
     <<B16 - 1, B16 - 1>>}

\* two peaks of one band at passes 10 and 400
MarkerExample ==
    DecodedMessage(16000, W(128),
        (1 :> <<FrequencyPeak(W(10), 258, 65534, 16000),
                FrequencyPeak(W(400), 258, 65534, 16000)>>))

\* a first peak with a negative pass number
NegativePassExample ==
    DecodedMessage(16000, W(128),
        (1 :> <<FrequencyPeak(W(-1), 258, 65534, 16000),
                FrequencyPeak(W(3), 258, 65534, 16000)>>))

SigInputs ==
    {DecodedMessage(16000, W(128), m) : m \in BandMapInputs(16000)}
      \cup UNION {{DecodedMessage(r, n, m) :
                     n \in NumberSamplesInputs(r),
                     m \in {EmptyBands, (1 :> <<FrequencyPeak(W(3), 258, 65534, r)>>)}} :
                  r \in DOMAIN SampleRate}
      \cup {DecodedMessage(44100, W(128), (2 :> l)) : l \in PeakListInputs(16000)}
      \cup {MarkerExample, NegativePassExample}

\* the messages altered in flight
WireInputs ==
    {DecodedMessage(16000, W(128), m) :
       m \in {EmptyBands}
               \cup {(b :> <<FrequencyPeak(W(p), 258, 65534, 16000)>>) :
                       b \in {1, 2}, p \in {0, 255}}
               \cup {(1 :> <<FrequencyPeak(W(p), 258, 65534, 16000)>>)
                       @@ (2 :> <<FrequencyPeak(W(q), 258, 65534, 16000)>>) :
                       p \in {0, 255}, q \in {0, 255}}}

\* byte values written by an alteration
PatchByteInputs == {0, 63, 68, 255}

\***************************************************************************
\* Codec actions
\***************************************************************************

InitCodecOn(S) ==
    /\ sig \in S
    /\ enc = NotYet
    /\ wire = <<>>
    /\ edit = NoEdit
    /\ out = NotYet
    /\ back = NotYet

\* caller: data = sig.encode_to_binary()
Encode ==
    /\ enc = NotYet
    /\ enc' = encode_to_binary(sig)
    /\ wire' = enc'.bytes
    /\ UNCHANGED <<sig, edit, out, back, generatorVars, callVars, recognizerVars, objectVars, ringVars, heapVars>>

\* alterations are explored on the messages of WireInputs
Untouched ==
    /\ sig \in WireInputs
    /\ enc # NotYet /\ enc.ok /\ edit = NoEdit /\ out = NotYet

\* bit k of byte i (0-based offset) of the message flips in flight
FlipBit ==
    /\ Untouched
    /\ \E i \in 0..(Len(wire) - 1), k \in 0..7 :
         /\ wire' = [wire EXCEPT ![i + 1] = Xor8(@, 2 ^ k)]
         /\ edit' = [kind |-> "flip", at |-> i]
    /\ UNCHANGED <<sig, enc, out, back, generatorVars, callVars, recognizerVars, objectVars, ringVars, heapVars>>

\* byte i of the message is overwritten in flight
Patch ==
    /\ Untouched
    /\ \E i \in 0..(Len(wire) - 1), v \in PatchByteInputs :
         /\ v # wire[i + 1]
         /\ wire' = [wire EXCEPT ![i + 1] = v]
         /\ edit' = [kind |-> "patch", at |-> i]
    /\ UNCHANGED <<sig, enc, out, back, generatorVars, callVars, recognizerVars, objectVars, ringVars, heapVars>>

\* another producer's message: byte i >= 8 differs and the crc32 field is
\* the checksum of what is sent
Forge ==
    /\ Untouched
    /\ \E i \in 8..(Len(wire) - 1), v \in PatchByteInputs :
         /\ v # wire[i + 1]
         /\ LET body == [SubSeq(wire, 9, Len(wire)) EXCEPT ![i - 7] = v]
            IN  wire' = SubSeq(wire, 1, 4) \o crc32(body) \o body
         /\ edit' = [kind |-> "forge", at |-> i]
    /\ UNCHANGED <<sig, enc, out, back, generatorVars, callVars, recognizerVars, objectVars, ringVars, heapVars>>

\* caller: DecodedMessage.decode_from_binary(wire)
Decode ==
    /\ enc # NotYet /\ enc.ok
    /\ out = NotYet
    /\ out' = decode_from_binary(wire)
    /\ UNCHANGED <<sig, enc, wire, edit, back, generatorVars, callVars, recognizerVars, objectVars, ringVars, heapVars>>

\* caller: decoded.encode_to_binary()
Reencode ==
    /\ out # NotYet /\ out.err = "ok"
    /\ back = NotYet
    /\ back' = encode_to_binary(out.msg)
    /\ UNCHANGED <<sig, enc, wire, edit, out, generatorVars, callVars, recognizerVars, objectVars, ringVars, heapVars>>

\***************************************************************************
\* Generator: inputs and actions
\***************************************************************************

\* feed_input calls in one behaviour
MaxFeeds == 3

Silence(n) == [k \in 1..n |-> 0]

Tone(bin, n) == [k \in 1..n |-> bin]

\* a full window of one tone, a window of silence, a full window of another
TwoTones ==
    Tone(10, SampleRingSize) \o Silence(SampleRingSize) \o Tone(12, SampleRingSize)

\* the recognizer looks 46 frames back
LongSilence == Silence(46 * HopSize)

\* less than one hop
Partial == Silence(HopSize - 1)

ClipInputs == {TwoTones, LongSilence, Partial}

\* a clip that takes the frame rings past their last slot: silence up to
\* hop LeadHops, the two tones, then silence until they are recognised
LeadHops == FrameRingSize

LongClip == Silence(LeadHops * HopSize) \o TwoTones \o LongSilence

\* the generator object assembled from its fields, and back
Generator ==
    [input_pending_processing |-> input_pending_processing,
     samples_processed        |-> samples_processed,
     next_signature           |-> next_signature,
     ring_buffer_of_samples   |-> ring_buffer_of_samples,
     fft_outputs              |-> fft_outputs,
     spread_ffts_output       |-> spread_ffts_output]

Becomes(g) ==
    /\ input_pending_processing' = g.input_pending_processing
    /\ samples_processed' = g.samples_processed
    /\ next_signature' = g.next_signature
    /\ ring_buffer_of_samples' = g.ring_buffer_of_samples
    /\ fft_outputs' = g.fft_outputs
    /\ spread_ffts_output' = g.spread_ffts_output

NoCall == [op |-> "none"]

\* line 77: DecodedMessage() makes a new object and self.next_signature
\* refers to it from then on; the objects made before stay as they are.  An
\* object is a signature with the dict and the lists only it refers to, and
\* its reference is its index among the objects made.
SignatureClearedInPlace(objects, ref, fresh) ==
    [objects |-> [objects EXCEPT ![ref] = fresh], ref |-> ref]

NewSignatureObject(objects, ref, fresh) ==
    [objects |-> Append(objects, fresh), ref |-> Len(objects) + 1]

\* lines 114 and 257-267 change the object self.next_signature refers to
ChangedInPlace(objects, ref, value) == [objects EXCEPT ![ref] = value]

InitGenerator ==
    /\ input_pending_processing = NewGenerator.input_pending_processing
    /\ samples_processed = NewGenerator.samples_processed
    /\ next_signature = NewGenerator.next_signature
    /\ ring_buffer_of_samples = NewGenerator.ring_buffer_of_samples
    /\ fft_outputs = NewGenerator.fft_outputs
    /\ spread_ffts_output = NewGenerator.spread_ffts_output
    /\ last = NoCall
    /\ feeds = 0
    /\ pc = "idle"
    /\ returned_signatures = <<>>
    /\ signature_objects = <<NewGenerator.next_signature>>
    /\ next_signature_ref = 1
    /\ returned_refs = <<>>

\* caller: generator.feed_input(clip), between two calls
FeedInput ==
    /\ pc = "idle"
    /\ feeds < MaxFeeds
    /\ \E clip \in ClipInputs : Becomes(feed_input(Generator, clip))
    /\ last' = [op |-> "feed_input"]
    /\ feeds' = feeds + 1
    /\ UNCHANGED <<codecVars, pc, returned_signatures, recognizerVars, objectVars, ringVars, heapVars>>

\* caller: generator.feed_input(LongClip), once, as the first feed
FeedLong ==
    /\ pc = "idle"
    /\ feeds = 0
    /\ Becomes(feed_input(Generator, LongClip))
    /\ last' = [op |-> "feed_input"]
    /\ feeds' = feeds + 1
    /\ UNCHANGED <<codecVars, pc, returned_signatures, recognizerVars, objectVars, ringVars, heapVars>>

\* caller: generator.get_next_signature(), the whole call
GetNextSignature ==
    /\ pc = "idle"
    /\ LET r == get_next_signature(Generator)
       IN  /\ Becomes(r.g)
           /\ last' = [op |-> "get_next_signature", result |-> r.result]
           /\ returned_signatures' =
                  IF r.result = None THEN returned_signatures
                  ELSE Append(returned_signatures, r.result)
           /\ IF r.result = None
              THEN UNCHANGED objectVars
              ELSE LET built == ChangedInPlace(signature_objects, next_signature_ref,
                                              r.result)
                       made  == NewSignatureObject(built, next_signature_ref,
                                                   r.g.next_signature)
                   IN  /\ signature_objects' = made.objects
                       /\ next_signature_ref' = made.ref
                       /\ returned_refs' = Append(returned_refs, next_signature_ref)
    /\ UNCHANGED <<codecVars, feeds, pc, recognizerVars, ringVars, heapVars>>

\* get_next_signature step by step.  Lines 95-96: the call returns None, or
\* goes on to the while loop
EnterGetNextSignature ==
    /\ pc = "idle"
    /\ IF Unconsumed(Generator) < HopSize
       THEN /\ last' = [op |-> "get_next_signature", result |-> None]
            /\ pc' = "idle"
       ELSE /\ last' = last
            /\ pc' = "while"
    /\ UNCHANGED <<codecVars, generatorVars, feeds, returned_signatures, recognizerVars, objectVars, ringVars, heapVars>>

\* lines 99-105: one turn of the while loop
WhileTurn ==
    /\ pc = "while"
    /\ KeepGoing(Generator)
    /\ Becomes(Turn(Generator))
    /\ signature_objects' =
          ChangedInPlace(signature_objects, next_signature_ref,
                         Turn(Generator).next_signature)
    /\ UNCHANGED <<codecVars, callVars, recognizerVars, next_signature_ref,
                   returned_refs, ringVars, heapVars>>

\* lines 108-110: the loop is over, the signature is returned
ReturnSignature ==
    /\ pc = "while"
    /\ ~KeepGoing(Generator)
    /\ Becomes(reset_signature(Generator))
    /\ last' = [op |-> "get_next_signature", result |-> next_signature]
    /\ returned_signatures' = Append(returned_signatures, next_signature)
    /\ returned_refs' = Append(returned_refs, next_signature_ref)
    /\ LET made == NewSignatureObject(signature_objects, next_signature_ref,
                                      reset_signature(Generator).next_signature)
       IN  /\ signature_objects' = made.objects
           /\ next_signature_ref' = made.ref
    /\ pc' = "idle"
    /\ UNCHANGED <<codecVars, feeds, recognizerVars, ringVars, heapVars>>

\***************************************************************************
\* Specifications
\***************************************************************************

\***************************************************************************
\* Recognizer: the peak made of one candidate, at the sizes of the source
\***************************************************************************

\* the 1024 of the frequency formula, line 241
LastBin == 1024

\* candidate bins on both sides of each band limit: 250 Hz is bin 32,
\* 520 Hz bin 66.56, 1450 Hz bin 185.6, 3500 Hz bin 448, 5500 Hz bin 704
BinInputs == {32, 33, 66, 67, 185, 186, 448, 703, 704}

\* how far the log magnitudes of the two neighbours lie below the peak's,
\* in hundredths
DropInputs == {100, 2000, 17000, 31000}

\* the log magnitude of the candidates, in hundredths
PeakMagnitudeInput == 300000

CandidateInputs ==
    {[bin_position          |-> b,
      peak_magnitude        |-> PeakMagnitudeInput,
      peak_magnitude_before |-> PeakMagnitudeInput - d1,
      peak_magnitude_after  |-> PeakMagnitudeInput - d2,
      fft_number            |-> 0] :
        b \in BinInputs, d1 \in DropInputs, d2 \in DropInputs}

NoCandidate == [none |-> TRUE]

InitRecognizerOn(S) ==
    /\ candidate \in S
    /\ measured = NotYet

NoRing == [none |-> TRUE]

InitRingOn(S) ==
    /\ ring_buffer \in S
    /\ appended = <<>>
    /\ read = NotYet

\* the RingBuffer class on its own: capacities, values and indices tried
MaxRingSize == 3

MaxAppends == 5

RingSizeInputs == 1..MaxRingSize

\* default_value of the rings tried, and the values appended to them
RingDefault == 0

ValueInputs == {7, 8}

\* indices on both sides of 0 and beyond the capacity
IndexInputs == (0 - 2 * MaxRingSize)..(2 * MaxRingSize)

RingInputs == {RingBuffer(n, RingDefault) : n \in RingSizeInputs}

\* caller: ring.append(v)
AppendToRing ==
    /\ ring_buffer # NoRing
    /\ Len(appended) < MaxAppends
    /\ \E v \in ValueInputs :
         /\ ring_buffer' = append(ring_buffer, v)
         /\ appended' = Append(appended, v)
    /\ UNCHANGED <<codecVars, generatorVars, callVars, recognizerVars, objectVars,
                   read, heapVars>>

\* caller: ring[i]
GetItem ==
    /\ ring_buffer # NoRing
    /\ \E i \in IndexInputs :
         read' = [index |-> i, value |-> getitem(ring_buffer, i)]
    /\ UNCHANGED <<codecVars, generatorVars, callVars, recognizerVars, objectVars,
                   ring_buffer, appended, heapVars>>

\* spreading on objects: the slots of the two frame rings (256 in the
\* source), the steps taken, and the raw frames do_fft may append
SpreadRingSize == 8

MaxSpreads == 10

\* a spectrum falling from bin 0 on, and one with a line at bin 10 and a
\* weaker one at the last bin
Falling == list([k \in 1..NumBins |-> NumBins + 1 - k])

Spike ==
    list([k \in 1..NumBins |->
            IF k = 11 THEN 100 ELSE IF k = NumBins THEN 50 ELSE MagnitudeFloor])

FrameInputs == {Falling, Spike}

\* the two frame rings as reset_signature makes them, lines 83-84
InitSpreading ==
    LET fft    == NewRing(<<>>, SpreadRingSize, ZeroFrame)
        spread == NewRing(fft.objects, SpreadRingSize, ZeroFrame)
    IN  /\ vectors = spread.objects
        /\ fft_refs = fft.ring
        /\ spread_refs = spread.ring

\* line 154 and do_peak_spreading: the frame do_fft computed is appended to
\* the FFT ring and spread into the spread ring
AppendAndSpread ==
    /\ fft_refs # NoRing
    /\ fft_refs.num_written < MaxSpreads
    /\ \E fft_results \in FrameInputs :
         LET made   == Append(vectors, fft_results)
             fft    == append(fft_refs, Len(made))
             result == SpreadObjects(made, fft, spread_refs)
         IN  /\ vectors' = result.objects
             /\ fft_refs' = fft
             /\ spread_refs' = result.spread
    /\ UNCHANGED <<codecVars, generatorVars, callVars, recognizerVars, objectVars,
                   ringVars>>

InitSpreadingIdle ==
    /\ vectors = <<>>
    /\ fft_refs = NoRing
    /\ spread_refs = NoRing

\* do_peak_recognition, lines 224-267, on the candidate
Measure ==
    /\ candidate # NoCandidate
    /\ measured = NotYet
    /\ measured' = MeasurePeak(candidate.bin_position, candidate.peak_magnitude,
                               candidate.peak_magnitude_before,
                               candidate.peak_magnitude_after,
                               candidate.fft_number, LastBin)
    /\ UNCHANGED <<codecVars, generatorVars, callVars, candidate, objectVars, ringVars, heapVars>>

InitCodec ==
    /\ InitCodecOn(SigInputs)
    /\ InitGenerator
    /\ InitRecognizerOn({NoCandidate})
    /\ InitRingOn({NoRing})
    /\ InitSpreadingIdle

NextCodec == Encode \/ FlipBit \/ Patch \/ Forge \/ Decode \/ Reencode

SpecCodec == InitCodec /\ [][NextCodec]_vars

Init ==
    /\ InitCodecOn({DecodedMessage(SAMPLE_RATE, W(0), EmptyBands)})
    /\ InitGenerator
    /\ InitRecognizerOn({NoCandidate})
    /\ InitRingOn({NoRing})
    /\ InitSpreadingIdle

Next == FeedInput \/ GetNextSignature

Spec == Init /\ [][Next]_vars

\* the generator with get_next_signature taken one loop turn at a time
NextSteps == FeedInput \/ EnterGetNextSignature \/ WhileTurn \/ ReturnSignature

SpecSteps == Init /\ [][NextSteps]_vars

\* ... on one clip long enough for the frame rings to wrap
NextLong == FeedLong \/ EnterGetNextSignature \/ WhileTurn \/ ReturnSignature

SpecLong == Init /\ [][NextLong]_vars

\* the RingBuffer class on its own
InitRing ==
    /\ InitCodecOn({DecodedMessage(SAMPLE_RATE, W(0), EmptyBands)})
    /\ InitGenerator
    /\ InitRecognizerOn({NoCandidate})
    /\ InitRingOn(RingInputs)
    /\ InitSpreadingIdle

NextRing == AppendToRing \/ GetItem

SpecRing == InitRing /\ [][NextRing]_vars

\* the two frame rings as rings of references
InitSpread ==
    /\ InitCodecOn({DecodedMessage(SAMPLE_RATE, W(0), EmptyBands)})
    /\ InitGenerator
    /\ InitRecognizerOn({NoCandidate})
    /\ InitRingOn({NoRing})
    /\ InitSpreading

NextSpread == AppendAndSpread

SpecSpread == InitSpread /\ [][NextSpread]_vars

\* the recognizer on one candidate
InitPeak ==
    /\ InitCodecOn({DecodedMessage(SAMPLE_RATE, W(0), EmptyBands)})
    /\ InitGenerator
    /\ InitRecognizerOn(CandidateInputs)
    /\ InitRingOn({NoRing})
    /\ InitSpreadingIdle

NextPeak == Measure

SpecPeak == InitPeak /\ [][NextPeak]_vars

\***************************************************************************
\* Properties of the codec (checked under SpecCodec)
\***************************************************************************

NonDecreasing(peaks) ==
    \A i \in 1..(Len(peaks) - 1) :
        WLeq(peaks[i].fft_pass_number, peaks[i + 1].fft_pass_number)

\* a signature with every field in the range its wire field can hold and
\* pass numbers in order within each band
WellFormed(m) ==
    /\ m.sample_rate_hz \in DOMAIN SampleRate
    /\ WIsU32(m.number_samples)
    /\ \A b \in DOMAIN m.frequency_band_to_sound_peaks :
         LET peaks == m.frequency_band_to_sound_peaks[b]
         IN  /\ NonDecreasing(peaks)
             /\ \A i \in 1..Len(peaks) :
                  /\ WIsU32(peaks[i].fft_pass_number)
                  /\ peaks[i].peak_magnitude \in 0..65535
                  /\ peaks[i].corrected_peak_frequency_bin \in 0..65535

\* ... that moreover survives the wire format: bands of the enum, none
\* mapped to an empty list, number_samples + 0.24 * rate still a u32, peaks
\* carrying the signature's own sample rate
Representable(m) ==
    /\ WellFormed(m)
    /\ DOMAIN m.frequency_band_to_sound_peaks \subseteq FrequencyBand
    /\ WIsU32(WAdd(m.number_samples, W(DividedSampleRate(m.sample_rate_hz))))
    /\ \A b \in DOMAIN m.frequency_band_to_sound_peaks :
         LET peaks == m.frequency_band_to_sound_peaks[b]
         IN  /\ peaks # <<>>
             /\ \A i \in 1..Len(peaks) : peaks[i].sample_rate_hz = m.sample_rate_hz

Decoded == out # NotYet

Intact == edit = NoEdit

\* C1 as stated: every well-formed signature (rate among the six, u32
\* number_samples and pass numbers, u16 magnitudes and bins, pass numbers
\* non-decreasing per band) decodes from its own encoding to itself.
C1_RoundTripWellFormed ==
    (Decoded /\ Intact /\ WellFormed(sig)) => out = DecOk(sig)

\* C1 amended: a well-formed signature is always encoded, and it decodes
\* from its own encoding to itself when its bands are members of
\* FrequencyBand, none has an empty peak list, number_samples + 0.24 *
\* sample_rate fits 32 bits and its peaks carry the signature's sample rate.
C1_RoundTripRepresentable ==
    /\ (enc # NotYet /\ WellFormed(sig)) => enc.ok
    /\ (Decoded /\ Intact /\ Representable(sig)) => out = DecOk(sig)

\* a decoded round trip of a signature with two bands and a peak behind an
\* absolute marker
C1_Witness ==
    /\ Decoded /\ Intact /\ Representable(sig)
    /\ Cardinality(DOMAIN sig.frequency_band_to_sound_peaks) = 2
    /\ \E b \in DOMAIN sig.frequency_band_to_sound_peaks :
         LET peaks == sig.frequency_band_to_sound_peaks[b]
         IN  /\ Len(peaks) = 2
             /\ peaks[1].fft_pass_number = W(254)
             /\ peaks[2].fft_pass_number = W(509)

\* C2 as stated: whatever byte string decodes successfully is reproduced
\* byte for byte by encoding the decoded signature.
C2_ReencodeAnyDecodable ==
    (back # NotYet) => back = EncOk(wire)

\* C2 amended: every byte string that encode_to_binary produced from a
\* signature with bands of FrequencyBand decodes successfully, and encoding
\* the decoded signature reproduces it byte for byte.
C2_ReencodeOwnOutput ==
    /\ (Decoded /\ Intact) => out.err = "ok"
    /\ (back # NotYet /\ Intact) => back = EncOk(enc.bytes)

\* a re-encoded message with two band sections, one of them with a marker
C2_Witness ==
    /\ back # NotYet /\ Intact
    /\ Cardinality(DOMAIN out.msg.frequency_band_to_sound_peaks) = 2
    /\ \E i \in 57..Len(wire) : wire[i] = FFT_PASS_MARKER

\* C3 as stated: a flipped bit at a byte offset >= 8 makes decode fail with
\* the checksum mismatch and no other error kind.
C3_FlipIsChecksumMismatch ==
    (Decoded /\ edit.kind = "flip" /\ edit.at >= 8)
        => out.err = "ChecksumMismatch"

\* C3 amended: a flipped bit at a byte offset >= 8 makes decode fail; the
\* failure is the size mismatch when the bit is in the size_minus_header
\* field (offsets 8..11), whose check comes first, and the checksum
\* mismatch at every offset >= 12.
C3_FlipIsRejected ==
    (Decoded /\ edit.kind = "flip" /\ edit.at >= 8)
        => /\ out.msg = NoMessage
           /\ out.err = IF edit.at < 12 THEN "SizeMismatch" ELSE "ChecksumMismatch"

\* a decoded message with a bit flipped in the last band section
C3_Witness ==
    /\ Decoded /\ edit.kind = "flip" /\ edit.at >= 56
    /\ out.err = "ChecksumMismatch"

\* the four header checks, stated on the bytes
Magic1Holds(data) == HeaderField(data, 0) = MAGIC1

Magic2Holds(data) == HeaderField(data, 12) = MAGIC2

SizeHolds(data) == HeaderField(data, 8) = W(Len(data) - HEADER_SIZE)

CrcHolds(data) == HeaderCrc(data) = crc32(SubSeq(data, 9, Len(data)))

HeaderHolds(data) ==
    Magic1Holds(data) /\ Magic2Holds(data) /\ SizeHolds(data) /\ CrcHolds(data)

\* C4: decode returns a signature only if magic1, magic2, the size and the
\* CRC32 all check; otherwise it fails and returns no signature; a message
\* that differs from a valid one only in magic1 fails as invalid magic.
C4_HeaderChecks ==
    Decoded =>
        /\ out.err = "ok" => HeaderHolds(wire)
        /\ ~HeaderHolds(wire) => (out.err # "ok" /\ out.msg = NoMessage)
        /\ (edit.kind = "patch" /\ edit.at < 4) => out.err = "InvalidMagic"
        /\ (Magic1Holds(wire) /\ SizeHolds(wire) /\ CrcHolds(wire)
              /\ ~Magic2Holds(wire)) => out.err = "InvalidMagic"

\* a decoded message whose only defect is magic2 (size and CRC32 valid)
C4_Witness ==
    /\ Decoded /\ edit.kind = "forge" /\ edit.at \in 12..15
    /\ Magic1Holds(wire) /\ SizeHolds(wire) /\ CrcHolds(wire)
    /\ out.err = "InvalidMagic"

\* the band sections of a message as the TLV framing delimits them: for
\* each, its tag (band_id - 0x60030040), the payload length it declares
\* and the bytes left after its header
RECURSIVE BandSections(_, _)
BandSections(data, pos) ==
    LET hdr == ReadAt(data, pos, 8)
    IN  IF hdr = <<>> THEN <<>>
        ELSE
          LET size  == WFromBytes(SubSeq(hdr, 5, Len(hdr)))
              start == pos + Len(hdr)
              left  == Len(data) - start
              take  == IF WLess(W(left), size) THEN left ELSE WInt(size)
              pad   == (4 - (size[2] % 4)) % 4
          IN  <<[tag  |-> WSub(WFromBytes(SubSeq(hdr, 1, Min(4, Len(hdr)))),
                               BAND_ID_OFFSET),
                 size |-> size, left |-> left]>>
                \o BandSections(data, Min(Len(data), start + take + pad))

\* header, sample-rate id and fixed TLV are all acceptable
PreambleHolds(data) ==
    /\ HeaderHolds(data)
    /\ HeaderField(data, 28)[1] \div 2048 \in 1..6
    /\ WFromBytes(ReadAt(data, 48, 4)) = TLV_TYPE_FIXED
    /\ WFromBytes(ReadAt(data, 52, 4)) = W(Len(data) - HEADER_SIZE)

HasSectionTagOutside(data, tags) ==
    \E i \in 1..Len(BandSections(data, 56)) :
        \A t \in tags : BandSections(data, 56)[i].tag # W(t)

\* C5 as stated: a message with valid header, size and CRC that has a band
\* section tagged outside {0,1,2,3} fails with the unknown-band error.
C5_OnlyFourBandsDecode ==
    (Decoded /\ PreambleHolds(wire) /\ HasSectionTagOutside(wire, {0, 1, 2, 3}))
        => out.err = "UnknownBand"

\* C5 amended: a message with valid header, sample-rate id and fixed TLV
\* that has a band section tagged outside {-1,0,1,2,3} fails with the
\* unknown-band error, and no returned signature has a band outside these
\* five; tag -1 (band _0_250) is accepted.
C5_OnlyEnumBandsDecode ==
    Decoded =>
        /\ (PreambleHolds(wire) /\ HasSectionTagOutside(wire, FrequencyBand))
              => (out.err = "UnknownBand" /\ out.msg = NoMessage)
        /\ out.err = "ok"
              => /\ DOMAIN out.msg.frequency_band_to_sound_peaks \subseteq FrequencyBand
                 /\ ~HasSectionTagOutside(wire, FrequencyBand)

\* a sealed message whose second band section carries tag 4
C5_Witness ==
    /\ Decoded /\ edit.kind = "forge" /\ PreambleHolds(wire)
    /\ Len(BandSections(wire, 56)) >= 2
    /\ BandSections(wire, 56)[1].tag = W(1)
    /\ BandSections(wire, 56)[2].tag = W(4)
    /\ out.err = "UnknownBand"

\* C6: a message with valid header whose band section declares a payload
\* longer than the bytes that remain is rejected; no signature is returned
\* from the short read.
C6_TruncatedIsRejected ==
    (Decoded /\ PreambleHolds(wire)
       /\ \E i \in 1..Len(BandSections(wire, 56)) :
            WLess(W(BandSections(wire, 56)[i].left), BandSections(wire, 56)[i].size))
        => out.err # "ok"

\* the payload of the section of a band in an encoded message, as the TLV
\* framing delimits it from offset pos on (empty when there is none)
RECURSIVE PayloadOf(_, _, _)
PayloadOf(data, pos, band) ==
    LET hdr == ReadAt(data, pos, 8)
    IN  IF Len(hdr) < 8 THEN <<>>
        ELSE
          LET size  == WInt(WFromBytes(SubSeq(hdr, 5, 8)))
              start == pos + 8
              pad   == (4 - (size % 4)) % 4
          IN  IF WFromBytes(SubSeq(hdr, 1, 4)) = WAdd(BAND_ID_OFFSET, W(band))
              THEN ReadAt(data, start, size)
              ELSE PayloadOf(data, start + size + pad, band)

\* a band payload read five bytes at a time: an item that starts with 0xFF
\* is an absolute marker (with its u32), any other a peak record (with its
\* delta byte)
RECURSIVE PayloadItems(_, _)
PayloadItems(payload, pos) ==
    IF pos >= Len(payload) THEN <<>>
    ELSE <<[marker |-> payload[pos + 1] = FFT_PASS_MARKER,
            delta  |-> payload[pos + 1],
            pass   |-> WFromBytes(ReadAt(payload, pos + 1, 4))]>>
           \o PayloadItems(payload, pos + 5)

\* the index among the items of the k-th peak record
RecordIndex(items, k) ==
    CHOOSE n \in 0..Len(items) :
        \/ n = 0 /\ Cardinality({j \in 1..Len(items) : ~items[j].marker}) < k
        \/ /\ n > 0
           /\ ~items[n].marker
           /\ Cardinality({j \in 1..n : ~items[j].marker}) = k

Encoded == enc # NotYet /\ enc.ok

\* consecutive peaks i, i + 1 of a list that are 255 passes or more apart
FarApart(peaks, i) ==
    ~WLess(WSub(peaks[i + 1].fft_pass_number, peaks[i].fft_pass_number), W(255))

\* C13: for consecutive peaks of a band 255 or more passes apart, the
\* encoded band payload has, between the two peak records, an absolute
\* marker (0xFF, then the little-endian u32 pass number of the second
\* peak), and the delta byte of the second record is 0.
C13_MarkerBetweenFarPeaks ==
    Encoded =>
        \A b \in DOMAIN sig.frequency_band_to_sound_peaks :
            LET peaks == sig.frequency_band_to_sound_peaks[b]
                items == PayloadItems(PayloadOf(enc.bytes, 56, b), 0)
            IN  \A i \in 1..(Len(peaks) - 1) :
                    FarApart(peaks, i) =>
                        LET first  == RecordIndex(items, i)
                            second == RecordIndex(items, i + 1)
                        IN  /\ first > 0
                            /\ second = first + 2
                            /\ items[first + 1].marker
                            /\ items[first + 1].pass = peaks[i + 1].fft_pass_number
                            /\ items[second].delta = 0

\* the encoding of peaks at passes 10 and 400: 0x0A, mag, bin, then 0xFF,
\* 0x90 0x01 0x00 0x00, then delta 0, mag, bin
C13_Witness ==
    /\ Encoded
    /\ sig = MarkerExample
    /\ PayloadOf(enc.bytes, 56, 1) =
           <<10, 2, 1, 254, 255, 255, 144, 1, 0, 0, 0, 2, 1, 254, 255>>

\* the running pass number the encoder holds when it reaches peak i of a
\* list: 0 before the first peak, else the pass number of the peak before
RunningBefore(peaks, i) ==
    IF i = 1 THEN W(0) ELSE peaks[i - 1].fft_pass_number

\* peak i lies 255 passes or more above the running pass number
Jumps(peaks, i) ==
    ~WLess(WSub(peaks[i].fft_pass_number, RunningBefore(peaks, i)), W(255))

\* where the record of peak i starts in the payload (0-based): five bytes
\* for every record before it and for every marker up to its own
RecordOffset(peaks, i) ==
    5 * (i - 1) + 5 * Cardinality({j \in 1..i : Jumps(peaks, j)})

\* C26: in every band payload the encoder writes, the record of peak i
\* starts with a delta byte in 0..0xFE, it is preceded by an absolute marker
\* (0xFF and the u32 pass number) exactly when the peak is 255 passes or
\* more above the running pass number, the payload holds nothing else, the
\* items that start with 0xFF at a five-byte boundary are exactly the
\* markers, and the decoder reads back each peak's fft_pass_number.
C26_DeltaNeverMarkerByte ==
    Encoded =>
        \A b \in DOMAIN sig.frequency_band_to_sound_peaks :
            LET peaks   == sig.frequency_band_to_sound_peaks[b]
                payload == PayloadOf(enc.bytes, 56, b)
                items   == PayloadItems(payload, 0)
                decoded == decode_band_peaks(payload, 0, W(0), sig.sample_rate_hz, <<>>)
                jumps   == {i \in 1..Len(peaks) : Jumps(peaks, i)}
            IN  /\ Len(payload) = 5 * (Len(peaks) + Cardinality(jumps))
                /\ Cardinality({k \in 1..Len(items) : items[k].marker})
                      = Cardinality(jumps)
                /\ Len(decoded) = Len(peaks)
                /\ \A i \in 1..Len(peaks) :
                      LET at == RecordOffset(peaks, i)
                      IN  /\ payload[at + 1] \in 0..254
                          /\ W(payload[at + 1]) =
                                WSub(peaks[i].fft_pass_number,
                                     IF i \in jumps THEN peaks[i].fft_pass_number
                                     ELSE RunningBefore(peaks, i))
                          /\ i \in jumps =>
                                /\ payload[at - 4] = FFT_PASS_MARKER
                                /\ WFromBytes(ReadAt(payload, at - 4, 4))
                                      = peaks[i].fft_pass_number
                          /\ (i \notin jumps /\ i > 1) =>
                                at = RecordOffset(peaks, i - 1) + 5
                          /\ (i \notin jumps /\ i = 1) => at = 0
                          /\ decoded[i].fft_pass_number = peaks[i].fft_pass_number

\* a list whose first peak needs a marker (pass 255 above the initial 0) and
\* whose second is written with the largest delta, 254
C26_Witness ==
    /\ Encoded
    /\ \E b \in DOMAIN sig.frequency_band_to_sound_peaks :
         LET peaks == sig.frequency_band_to_sound_peaks[b]
         IN  /\ Len(peaks) = 2
             /\ peaks[1].fft_pass_number = W(255)
             /\ peaks[2].fft_pass_number = W(509)
             /\ PayloadOf(enc.bytes, 56, b) =
                    <<255, 255, 0, 0, 0, 0, 2, 1, 254, 255, 254, 2, 1, 254, 255>>

\* a list with a peak below the peak before it, or a first peak below 0
OutOfOrder(peaks) ==
    \E i \in 1..Len(peaks) :
        WLess(peaks[i].fft_pass_number, RunningBefore(peaks, i))

\* C29: encode_to_binary of a signature in which some band's list has a
\* peak with a smaller fft_pass_number than the peak before it (or a
\* negative one in first place) fails and returns no bytes; whenever bytes
\* are returned, every list is in non-decreasing order from 0 on and every
\* delta byte written is the plain difference, never a wrapped one.
C29_OutOfOrderIsRefused ==
    enc # NotYet =>
        /\ (\E b \in DOMAIN sig.frequency_band_to_sound_peaks :
                OutOfOrder(sig.frequency_band_to_sound_peaks[b]))
              => (~enc.ok /\ enc.bytes = <<>>)
        /\ enc.ok =>
              \A b \in DOMAIN sig.frequency_band_to_sound_peaks :
                  LET peaks   == sig.frequency_band_to_sound_peaks[b]
                      payload == PayloadOf(enc.bytes, 56, b)
                  IN  \A i \in 1..Len(peaks) :
                          /\ WLeq(RunningBefore(peaks, i), peaks[i].fft_pass_number)
                          /\ ~Jumps(peaks, i) =>
                                WAdd(RunningBefore(peaks, i),
                                     W(payload[RecordOffset(peaks, i) + 1]))
                                  = peaks[i].fft_pass_number

\* a refused list that goes from pass 509 back to pass 254
C29_Witness ==
    /\ enc # NotYet /\ ~enc.ok
    /\ \E b \in DOMAIN sig.frequency_band_to_sound_peaks :
         LET peaks == sig.frequency_band_to_sound_peaks[b]
         IN  /\ Len(peaks) = 2
             /\ peaks[1].fft_pass_number = W(509)
             /\ peaks[2].fft_pass_number = W(254)

\* ... and a refused list whose first pass number is negative
C29_WitnessNegative ==
    /\ enc # NotYet /\ ~enc.ok
    /\ sig = NegativePassExample

\* the sample-rate id of a rate shifted left by 27, as a wide integer
ShiftedId(rate) == <<SampleRate[rate] * 2048, 0>>

\* C14 as stated: the little-endian u32 at bytes [32..36) of an encoded
\* message is the sample-rate id shifted left by 27 (0x28000000 for 44100).
C14_RateIdAtBytes32 ==
    Encoded => HeaderField(enc.bytes, 32) = ShiftedId(sig.sample_rate_hz)

\* C14 amended: the little-endian u32 at bytes [28..32) of an encoded
\* message is the sample-rate id shifted left by 27, 0x28000000 for 44100;
\* bytes [32..36) are zero.
C14_RateIdAtBytes28 ==
    Encoded =>
        /\ HeaderField(enc.bytes, 28) = ShiftedId(sig.sample_rate_hz)
        /\ sig.sample_rate_hz = 44100 => HeaderField(enc.bytes, 28) = <<10240, 0>>
        /\ HeaderField(enc.bytes, 32) = W(0)

\* an encoded 44100 Hz signature with a band section
C14_Witness ==
    /\ Encoded
    /\ sig.sample_rate_hz = 44100
    /\ sig.frequency_band_to_sound_peaks # EmptyBands
    /\ SubSeq(enc.bytes, 29, 32) = <<0, 0, 0, 40>>

\* the band sections of an encoded message from offset pos on: for each,
\* where it starts, its tag, the payload length it declares, how many
\* payload bytes are there, and the bytes between payload and next section
RECURSIVE SectionList(_, _)
SectionList(data, pos) ==
    IF pos >= Len(data) THEN <<>>
    ELSE
      LET hdr   == ReadAt(data, pos, 8)
          size  == WInt(WFromBytes(SubSeq(hdr, 5, Len(hdr))))
          padn  == (4 - (size % 4)) % 4
      IN  <<[at      |-> pos,
             tag     |-> WSub(WFromBytes(SubSeq(hdr, 1, Min(4, Len(hdr)))),
                              BAND_ID_OFFSET),
             size    |-> size,
             payload |-> Len(ReadAt(data, pos + 8, size)),
             padding |-> ReadAt(data, pos + 8 + size, padn)]>>
            \o SectionList(data, pos + 8 + size + padn)

NonEmptyBands(m) ==
    {b \in DOMAIN m.frequency_band_to_sound_peaks :
        m.frequency_band_to_sound_peaks[b] # <<>>}

\* C15: an encoded message has exactly one band section per band with a
\* non-empty peak list and none for an empty list, in strictly ascending
\* tag order; each payload is followed by (-length) mod 4 zero bytes, each
\* section starts on a 4-byte boundary and the total length is a multiple
\* of 4.
C15_SectionsSortedAndPadded ==
    Encoded =>
        LET secs == SectionList(enc.bytes, 56)
        IN  /\ Len(secs) = Cardinality(NonEmptyBands(sig))
            /\ {secs[i].tag : i \in 1..Len(secs)} = {W(b) : b \in NonEmptyBands(sig)}
            /\ \A i \in 1..(Len(secs) - 1) : WLess(secs[i].tag, secs[i + 1].tag)
            /\ \A i \in 1..Len(secs) :
                  /\ secs[i].at % 4 = 0
                  /\ secs[i].payload = secs[i].size
                  /\ secs[i].padding = Zeros((4 - (secs[i].size % 4)) % 4)
            /\ Len(enc.bytes) % 4 = 0

\* an encoded signature with a band mapped to an empty list ...
C15_WitnessEmptyList ==
    /\ Encoded
    /\ Cardinality(DOMAIN sig.frequency_band_to_sound_peaks) = 2
    /\ Cardinality(NonEmptyBands(sig)) = 1
    /\ Len(SectionList(enc.bytes, 56)) = 1

\* ... and one with two sections, padded by one and by three bytes
C15_Witness ==
    /\ Encoded
    /\ Len(SectionList(enc.bytes, 56)) = 2
    /\ SectionList(enc.bytes, 56)[1].padding = <<0>>
    /\ SectionList(enc.bytes, 56)[2].padding = <<0, 0, 0>>

\***************************************************************************
\* Properties of the generator (checked under Spec)
\***************************************************************************

\* the latest call was get_next_signature and it returned a signature
Returned == last.op = "get_next_signature" /\ last.result # None

ReturnedPeaks == TotalPeaks(last.result.frequency_band_to_sound_peaks)

\* every slot at its default, nothing written
IsFresh(ring, buffer_size, default_value) ==
    /\ ring.position = 0
    /\ ring.num_written = 0
    /\ ring.buffer_size = buffer_size
    /\ Len(ring.buffer) = buffer_size
    /\ \A i \in 1..buffer_size : ring.buffer[i] = default_value

\* C7: every returned signature has reached the time cap or has at most
\* MAX_PEAKS peaks (fewer than MAX_PEAKS + 1).
C7_PeakCapUnlessTimeCap ==
    Returned => (~UnderTime(last.result) \/ ReturnedPeaks < MaxPeaks + 1)

C9_NotReadyChangesNothing ==
    [][(GetNextSignature /\ Unconsumed(Generator) < HopSize)
          => (last'.result = None /\ UNCHANGED generatorVars)]_vars

\* a call that returned None with part of a hop pending behind the cursor
C9_Witness ==
    /\ last.op = "get_next_signature" /\ last.result = None
    /\ samples_processed > 0
    /\ Unconsumed(Generator) > 0

\* C10: right after get_next_signature returned a signature, the signature
\* under construction has number_samples 0 and no peaks, and the sample
\* ring, the FFT ring and the spread ring are as newly built.
C10_ResetAfterReturn ==
    Returned =>
        /\ next_signature.number_samples = W(0)
        /\ next_signature.frequency_band_to_sound_peaks = EmptyBands
        /\ IsFresh(ring_buffer_of_samples, SampleRingSize, 0)
        /\ IsFresh(fft_outputs, FrameRingSize, ZeroFrame)
        /\ IsFresh(spread_ffts_output, FrameRingSize, ZeroFrame)

\* a returned signature with samples and peaks in it
C10_Witness ==
    /\ Returned
    /\ ReturnedPeaks > 0
    /\ WLess(W(0), last.result.number_samples)

\* only zero-valued samples, a whole number of hops and at least one
IsSilence(samples) ==
    /\ Len(samples) > 0
    /\ Len(samples) % HopSize = 0
    /\ \A i \in 1..Len(samples) : samples[i] = 0

\* C16: a fresh generator fed only zero-valued samples, a whole number of
\* hops, returns on its first get_next_signature a signature with
\* number_samples equal to the number of samples fed, sample_rate_hz 16000
\* and no peak in any band.
C16_SilenceHasNoPeaks ==
    [][(GetNextSignature /\ returned_signatures = <<>>
          /\ IsSilence(input_pending_processing))
        => /\ last'.result # None
           /\ last'.result.number_samples = W(Len(input_pending_processing))
           /\ last'.result.sample_rate_hz = 16000
           /\ \A b \in DOMAIN last'.result.frequency_band_to_sound_peaks :
                 last'.result.frequency_band_to_sound_peaks[b] = <<>>]_vars

\* the first signature of a generator, from silence longer than the time cap
C16_Witness ==
    /\ Returned
    /\ Len(returned_signatures) = 1
    /\ IsSilence(input_pending_processing)
    /\ Len(input_pending_processing) > MaxTimeHops * HopSize
    /\ last.result.number_samples = W(Len(input_pending_processing))

\* the samples of the first k returned signatures together
RECURSIVE SamplesReturned(_)
SamplesReturned(k) ==
    IF k = 0 THEN 0
    ELSE SamplesReturned(k - 1) + WInt(returned_signatures[k].number_samples)

\* the block of fed samples behind the k-th returned signature: it starts
\* where the blocks before it end
BlockOf(k) ==
    SubSeq(input_pending_processing,
           SamplesReturned(k - 1) + 1, SamplesReturned(k))

\* the one signature a new generator makes of a block of samples
SignatureOf(block) ==
    get_next_signature(feed_input(NewGenerator, block)).result

\* C17: between calls, the k-th returned signature is the signature of the
\* block of fed samples that starts where the (k-1)-th block ended; blocks
\* are whole hops taken in the order fed, and the number_samples of all
\* returned signatures add up to the samples consumed so far.
C17_ContiguousBlocks ==
    pc = "idle" =>
        /\ SamplesReturned(Len(returned_signatures)) = samples_processed
        /\ samples_processed <= Len(input_pending_processing)
        /\ \A k \in 1..Len(returned_signatures) :
              /\ WInt(returned_signatures[k].number_samples) > 0
              /\ WInt(returned_signatures[k].number_samples) % HopSize = 0
              /\ returned_signatures[k] = SignatureOf(BlockOf(k))

\* a second signature, with peaks, whose block starts behind the first
C17_Witness ==
    /\ pc = "idle"
    /\ Len(returned_signatures) = 2
    /\ returned_signatures[1].number_samples = W(Len(LongSilence))
    /\ TotalPeaks(returned_signatures[2].frequency_band_to_sound_peaks) > 0

\***************************************************************************
\* Properties of the generator step by step (checked under SpecSteps)
\***************************************************************************

AllNonDecreasing(m) ==
    \A b \in DOMAIN m.frequency_band_to_sound_peaks :
        NonDecreasing(m.frequency_band_to_sound_peaks[b])

\* C11: fft_pass_number never decreases along a band's peak list, in the
\* signature under construction after every loop turn and in every
\* signature returned.
C11_PassNumbersNonDecreasing ==
    /\ AllNonDecreasing(next_signature)
    /\ \A k \in 1..Len(returned_signatures) : AllNonDecreasing(returned_signatures[k])

\* a signature under construction, mid-loop, with two peaks of different
\* passes in one band
C11_Witness ==
    /\ pc = "while"
    /\ KeepGoing(Generator)
    /\ \E b \in DOMAIN next_signature.frequency_band_to_sound_peaks :
         LET peaks == next_signature.frequency_band_to_sound_peaks[b]
         IN  /\ Len(peaks) >= 2
             /\ WLess(peaks[1].fft_pass_number, peaks[2].fft_pass_number)

\* the samples the loop has taken since the last reset, in the order fed
SamplesSinceReset ==
    SubSeq(input_pending_processing,
           samples_processed - WInt(next_signature.number_samples) + 1,
           samples_processed)

\* the last SampleRingSize of them, oldest first, behind zeros when there
\* are fewer
LastWindow(samples) ==
    LET padded == Zeros(SampleRingSize) \o samples
    IN  SubSeq(padded, Len(samples) + 1, Len(padded))

\* C19: after every loop turn the excerpt that do_fft windows,
\* ring[position:] ++ ring[:position], is the last SampleRingSize samples
\* fed since the last reset, oldest first and newest last, with zeros in
\* front while fewer have been fed; also when the cursor has wrapped to 0.
C19_ExcerptIsLastWindow ==
    /\ Len(Excerpt(ring_buffer_of_samples)) = SampleRingSize
    /\ Excerpt(ring_buffer_of_samples) = LastWindow(SamplesSinceReset) \o <<>>
    /\ ring_buffer_of_samples.num_written = Len(SamplesSinceReset)

\* the cursor back at 0 after the ring was overwritten, the excerpt going
\* from silence to the second tone
C19_Witness ==
    /\ pc = "while"
    /\ ring_buffer_of_samples.position = 0
    /\ ring_buffer_of_samples.num_written > SampleRingSize
    /\ Excerpt(ring_buffer_of_samples)[1] = 0
    /\ Excerpt(ring_buffer_of_samples)[SampleRingSize] = 12

\* ... and the excerpt before the ring is full, zeros in front
C19_WitnessZerosInFront ==
    /\ pc = "while"
    /\ ring_buffer_of_samples.num_written = HopSize
    /\ Excerpt(ring_buffer_of_samples)[1] = 0
    /\ Excerpt(ring_buffer_of_samples)[SampleRingSize] = 10

PeaksOf(m, b) ==
    IF b \in DOMAIN m.frequency_band_to_sound_peaks
    THEN m.frequency_band_to_sound_peaks[b] ELSE <<>>

\* what one loop turn does to the peak lists: it keeps every peak there
\* was, appends none while the spread ring has fewer than 46 frames written,
\* and numbers the peaks it appends num_written - 46
TurnNumbersNewPeaks ==
    /\ spread_ffts_output'.num_written = spread_ffts_output.num_written + 1
    /\ \A b \in FrequencyBand :
          LET old == PeaksOf(next_signature, b)
              new == PeaksOf(next_signature', b)
          IN  /\ Len(old) <= Len(new)
              /\ SubSeq(new, 1, Len(old)) = old
              /\ spread_ffts_output'.num_written < 46 => new = old
              /\ \A i \in (Len(old) + 1)..Len(new) :
                    new[i].fft_pass_number = W(spread_ffts_output'.num_written - 46)

\* every pass number of a signature is in 0 .. number_samples / hop - 46,
\* and a signature of fewer than 46 hops has no peaks
PassNumbersInRange(m) ==
    /\ \A b \in DOMAIN m.frequency_band_to_sound_peaks :
          \A i \in 1..Len(m.frequency_band_to_sound_peaks[b]) :
              LET pass == m.frequency_band_to_sound_peaks[b][i].fft_pass_number
              IN  /\ WLeq(W(0), pass)
                  /\ WLeq(pass, W((WInt(m.number_samples) \div HopSize) - 46))
    /\ WInt(m.number_samples) < 46 * HopSize
          => TotalPeaks(m.frequency_band_to_sound_peaks) = 0

\* C20: a loop turn emits peaks only when the spread ring's num_written
\* is at least 46 after the turn's append, and every peak it emits has
\* fft_pass_number = num_written - 46; so every pass number of a signature,
\* under construction or returned, lies in 0 .. number_samples / hop - 46,
\* and a signature of fewer than 46 hops has no peaks.
C20_PassIsWrittenMinus46 ==
    /\ [](/\ PassNumbersInRange(next_signature)
          /\ \A k \in 1..Len(returned_signatures) :
                PassNumbersInRange(returned_signatures[k]))
    /\ [][WhileTurn => TurnNumbersNewPeaks]_vars

\* right after the turn that emitted it: a peak numbered num_written - 46,
\* the largest pass number its signature allows
C20_Witness ==
    /\ pc = "while"
    /\ spread_ffts_output.num_written >= 46
    /\ next_signature.number_samples = W(spread_ffts_output.num_written * HopSize)
    /\ \E b \in DOMAIN next_signature.frequency_band_to_sound_peaks :
         LET peaks == next_signature.frequency_band_to_sound_peaks[b]
         IN  peaks[Len(peaks)].fft_pass_number = W(spread_ffts_output.num_written - 46)

\* the FFT frame the recognizer examines: 46 behind the cursor
ExaminedFrame == getitem(fft_outputs, fft_outputs.position - 46)

\* the peaks a loop turn has appended to the lists of the signature
NewPeaks ==
    UNION {{PeaksOf(next_signature', b)[i] :
              i \in (Len(PeaksOf(next_signature, b)) + 1)..Len(PeaksOf(next_signature', b))} :
           b \in FrequencyBand}

\* C18 as stated: for every peak emitted with fft_pass_number N, the
\* examined frame is the transform of the window [hop * N, hop * N +
\* window) of the current signature's audio.
C18_WindowStartsAtPass ==
    [][WhileTurn =>
         \A peak \in NewPeaks :
             LET N == WInt(peak.fft_pass_number)
             IN  ExaminedFrame' =
                   Magnitudes(SubSeq(SamplesSinceReset', HopSize * N + 1,
                                     HopSize * N + SampleRingSize))]_vars

\* C18 amended: for every peak emitted with fft_pass_number N, the examined
\* frame is the transform of the window that ends with hop N, the samples
\* [hop * (N + 1) - window, hop * (N + 1)) of the current signature's
\* audio, zeros standing for the positions before its start.
C18_WindowEndsWithPass ==
    [][WhileTurn =>
         \A peak \in NewPeaks :
             LET N == WInt(peak.fft_pass_number)
             IN  ExaminedFrame' =
                   Magnitudes(LastWindow(SubSeq(SamplesSinceReset', 1,
                                                HopSize * (N + 1))))]_vars

\* right after the turn that emitted the peak of the second tone: the
\* examined frame is the transform of a full window of that tone
C18_Witness ==
    /\ pc = "while"
    /\ spread_ffts_output.num_written > 46
    /\ \E b \in DOMAIN next_signature.frequency_band_to_sound_peaks :
         LET peaks == next_signature.frequency_band_to_sound_peaks[b]
         IN  /\ Len(peaks) = 2
             /\ peaks[2].fft_pass_number = W(fft_outputs.num_written - 46)
    /\ ExaminedFrame = Magnitudes(Tone(12, SampleRingSize))

\* the cursor into the fed samples stands on a hop boundary within them
CursorOnHop ==
    /\ samples_processed % HopSize = 0
    /\ samples_processed >= 0
    /\ samples_processed <= Len(input_pending_processing)

\* C28: every returned signature has a number_samples that is a positive
\* multiple of the hop (at least one hop is consumed before a signature is
\* returned); the cursor samples_processed is at all times, also between
\* two loop turns, a multiple of the hop that does not exceed the number of
\* samples fed, and no step decreases it.
C28_WholeHopsConsumed ==
    /\ [](/\ CursorOnHop
          /\ \A k \in 1..Len(returned_signatures) :
                /\ WLess(W(0), returned_signatures[k].number_samples)
                /\ WInt(returned_signatures[k].number_samples) % HopSize = 0)
    /\ [][samples_processed' >= samples_processed]_vars
    /\ [][ReturnSignature => WLess(W(0), next_signature.number_samples)]_vars

\* mid-loop in a second call: a signature was returned, hops of the next
\* one are consumed and more are pending
C28_Witness ==
    /\ pc = "while"
    /\ returned_signatures # <<>>
    /\ WLess(W(0), next_signature.number_samples)
    /\ samples_processed < Len(input_pending_processing)

\* the spread frame the recognizer reads 49 behind the cursor
SpreadMinus49 == getitem(spread_ffts_output, spread_ffts_output.position - 49)

\* the bins the recognizer takes as candidates
CandidateBins == 10..(NumBins - 11)

\* the recognizer runs in the turns that leave 46 frames or more written
Recognizing == pc = "while" /\ spread_ffts_output.num_written >= 46

\* C24: when the recognizer has run, for every candidate bin p the spread
\* frame 49 back is at least the examined raw frame at bins p-1, p, p+1 (it
\* has received the frequency-spread values of that frame), so the floor
\* test f46[p] >= s49[p-1] passes only with equality; and every bin p at
\* which a peak is emitted has a raw value strictly above that of every
\* other bin of [p-10, p+10] in the examined frame.
C24_PeakDominatesNeighbourhood ==
    Recognizing =>
        \A p \in CandidateBins :
            /\ Bin(SpreadMinus49, p - 1) >= Bin(ExaminedFrame, p - 1)
            /\ Bin(SpreadMinus49, p - 1) >= Bin(ExaminedFrame, p)
            /\ Bin(SpreadMinus49, p - 1) >= Bin(ExaminedFrame, p + 1)
            /\ Bin(ExaminedFrame, p) >= Bin(SpreadMinus49, p - 1)
                  => Bin(ExaminedFrame, p) = Bin(SpreadMinus49, p - 1)
            /\ PeakAt(Generator, p).found =>
                  /\ Bin(ExaminedFrame, p) = Bin(SpreadMinus49, p - 1)
                  /\ \A q \in (p - 10)..(p + 10) :
                        q # p => Bin(ExaminedFrame, p) > Bin(ExaminedFrame, q)

\* right after the turn that emitted the peak of the second tone at bin 12
C24_Witness ==
    /\ Recognizing
    /\ PeakAt(Generator, 12).found
    /\ Bin(ExaminedFrame, 12) = Bin(SpreadMinus49, 11)
    /\ Bin(ExaminedFrame, 12) > PeakFloor
    /\ TotalPeaks(next_signature.frequency_band_to_sound_peaks) = 2

\* a ring's cursor is where its count of writes says
CursorFollowsCount(ring) ==
    /\ ring.position = ring.num_written % ring.buffer_size
    /\ Len(ring.buffer) = ring.buffer_size

\* the raw frame of the hop with 0-based index k of the current signature:
\* the transform of the window that ends with that hop
FrameOfHop(k) ==
    Magnitudes(LastWindow(SubSeq(SamplesSinceReset, 1, HopSize * (k + 1))))

\* C25: after every loop turn the FFT ring and the spread ring have the
\* same num_written and the same position, the position of each of the
\* three rings is its num_written modulo its capacity, and once 46 frames
\* are written the frame the recognizer examines at offset -46 is the raw
\* frame of the hop with index num_written - 46, the index given to the
\* peaks emitted in that turn.
C25_RingsInStep ==
    /\ fft_outputs.num_written = spread_ffts_output.num_written
    /\ fft_outputs.position = spread_ffts_output.position
    /\ CursorFollowsCount(fft_outputs)
    /\ CursorFollowsCount(spread_ffts_output)
    /\ CursorFollowsCount(ring_buffer_of_samples)
    /\ ring_buffer_of_samples.num_written = HopSize * fft_outputs.num_written
    /\ fft_outputs.num_written >= 46 =>
          /\ ExaminedFrame = FrameOfHop(fft_outputs.num_written - 46)
          /\ fft_number(spread_ffts_output) = fft_outputs.num_written - 46
          /\ \A b \in DOMAIN next_signature.frequency_band_to_sound_peaks :
                \A i \in 1..Len(next_signature.frequency_band_to_sound_peaks[b]) :
                    LET N == WInt(next_signature.frequency_band_to_sound_peaks[b][i].fft_pass_number)
                    IN  getitem(fft_outputs, N) = FrameOfHop(N)

\* all three rings have wrapped, the frame rings stand 47 slots into their
\* second round, and the examined frame, in slot 1, is the full window of
\* the first tone, which gave the peak of pass LeadHops + 1
C25_Witness ==
    /\ pc = "while"
    /\ fft_outputs.num_written = LeadHops + 47
    /\ fft_outputs.num_written > FrameRingSize
    /\ fft_outputs.position = LeadHops + 47 - FrameRingSize
    /\ ring_buffer_of_samples.position = ((LeadHops + 47) * HopSize) % SampleRingSize
    /\ ExaminedFrame = Magnitudes(Tone(10, SampleRingSize))
    /\ ExaminedFrame = fft_outputs.buffer[LeadHops + 1 - FrameRingSize + 1]
    /\ \E b \in DOMAIN next_signature.frequency_band_to_sound_peaks :
         \E i \in 1..Len(next_signature.frequency_band_to_sound_peaks[b]) :
             next_signature.frequency_band_to_sound_peaks[b][i].fft_pass_number
                = W(LeadHops + 1)

\* the k-th signature handed to the caller, as the object is now
ReturnedObject(k) == signature_objects[returned_refs[k]]

\* C27: a signature returned by get_next_signature is the same ever after:
\* at all times the object handed over by the k-th return still has the
\* number_samples, the band map and the peak lists it was returned with,
\* and no step of a later feed_input or get_next_signature changes it; the
\* signature under construction is another object.
C27_ReturnedSignatureIsFrozen ==
    /\ [](/\ Len(returned_refs) = Len(returned_signatures)
          /\ \A k \in 1..Len(returned_refs) :
                /\ ReturnedObject(k) = returned_signatures[k]
                /\ returned_refs[k] # next_signature_ref
          /\ signature_objects[next_signature_ref] = next_signature)
    /\ [][\A k \in 1..Len(returned_refs) :
            signature_objects'[returned_refs[k]] = ReturnedObject(k)]_vars

\* a signature with peaks was returned, and a later call is mid-loop with
\* hops of its own counted in the signature under construction
C27_Witness ==
    /\ pc = "while"
    /\ Len(returned_refs) >= 1
    /\ TotalPeaks(ReturnedObject(1).frequency_band_to_sound_peaks) > 0
    /\ WLess(W(0), next_signature.number_samples)
    /\ next_signature # ReturnedObject(1)
    /\ samples_processed > WInt(ReturnedObject(1).number_samples)

\***************************************************************************
\* Properties of the recognizer (checked under SpecPeak)
\***************************************************************************

\* the frequency of a peak lies in the half-open range of a band
InBandHz(peak, band) ==
    LET hz == get_frequency_hz(peak)
    IN  /\ FREQ_BANDS[band][1] * hz.den <= hz.num
        /\ hz.num < FREQ_BANDS[band][2] * hz.den

\* C12: the frequency in Hz that get_frequency_hz derives from the stored
\* integer bin of a peak lies within the half-open range of the band the
\* peak is stored under.
C12_StoredBinInBand ==
    (measured # NotYet /\ measured.found) => InBandHz(measured.peak, measured.band)

\***************************************************************************
\* Properties of the RingBuffer class (checked under SpecRing)
\***************************************************************************

\* i mod N by counting: the one r in 0 .. N-1 that a whole number of turns
\* of N separates from i
Wrapped(i, N) ==
    CHOOSE r \in 0..(N - 1) :
        \E q \in (0 - Len(appended) - 3 * MaxRingSize)..(Len(appended) + 3 * MaxRingSize) :
            i = q * N + r

\* the slot with 0-based index j holds the latest value appended at a count
\* that is j modulo N, or the default when there was none
LatestInSlot(j, N) ==
    LET counts == {c \in 1..Len(appended) : Wrapped(c - 1, N) = j}
    IN  IF counts = {} THEN RingDefault
        ELSE appended[CHOOSE c \in counts : \A d \in counts : d <= c]

\* C23: after any sequence of appends to a RingBuffer of capacity N the
\* buffer has exactly N slots, position is num_written mod N and lies in
\* [0, N), num_written is the number of appends, the k-th latest appended
\* value (k <= N) is in slot (position - k) mod N, the slots never written
\* hold the default; an append stores its value at the old position; and
\* ring[i] is buffer[i mod N] for every integer i, negative ones included.
C23_RingKeepsLatestN ==
    /\ [](ring_buffer # NoRing =>
            LET N == ring_buffer.buffer_size
            IN  /\ Len(ring_buffer.buffer) = N
                /\ ring_buffer.position \in 0..(N - 1)
                /\ ring_buffer.num_written = Len(appended)
                /\ ring_buffer.position = Wrapped(Len(appended), N)
                /\ \A j \in 0..(N - 1) :
                      ring_buffer.buffer[j + 1] = LatestInSlot(j, N)
                /\ \A k \in 1..N :
                      k <= Len(appended) =>
                        ring_buffer.buffer[Wrapped(ring_buffer.position - k, N) + 1]
                          = appended[Len(appended) - k + 1]
                /\ \A i \in IndexInputs :
                      getitem(ring_buffer, i) = ring_buffer.buffer[Wrapped(i, N) + 1])
    /\ [][GetItem =>
            read'.value =
               ring_buffer.buffer[Wrapped(read'.index, ring_buffer.buffer_size) + 1]]_vars
    /\ [][AppendToRing =>
            /\ ring_buffer'.buffer[ring_buffer.position + 1]
                  = appended'[Len(appended')]
            /\ \A j \in 1..ring_buffer.buffer_size :
                  j # ring_buffer.position + 1
                    => ring_buffer'.buffer[j] = ring_buffer.buffer[j]
            /\ ring_buffer'.num_written = ring_buffer.num_written + 1
            /\ ring_buffer'.buffer_size = ring_buffer.buffer_size]_vars

\* a ring of three slots after five appends, the two oldest overwritten,
\* read at index -1: the newest value
C23_Witness ==
    /\ ring_buffer # NoRing
    /\ ring_buffer.buffer_size = 3
    /\ appended = <<7, 8, 8, 7, 8>>
    /\ ring_buffer.buffer = <<7, 8, 8>>
    /\ ring_buffer.position = 2
    /\ read # NotYet
    /\ read.index = 0 - 1
    /\ read.value = 8

\***************************************************************************
\* Properties of spreading on objects (checked under SpecSpread)
\***************************************************************************

\* the frame in the slot with 0-based index j (taken modulo the capacity)
\* of a ring of references
FrameIn(objects, refs, j) == objects[getitem(refs, j)]

\* a ring of references seen as a ring of frames
FramesOf(objects, refs) ==
    [refs EXCEPT !.buffer = list([j \in 1..Len(refs.buffer) |-> objects[refs.buffer[j]]])]

\* the references held by the slots of the two rings
SlotRefs ==
    {fft_refs.buffer[j] : j \in 1..Len(fft_refs.buffer)}
      \cup {spread_refs.buffer[j] : j \in 1..Len(spread_refs.buffer)}

\* the slots of the spread ring a step may write to: the one at the cursor
\* (by append) and those 1, 3 and 6 behind it
WrittenSlots ==
    {(spread_refs.position + o) % spread_refs.buffer_size : o \in {0, -1, -3, -6}}

\* C30: the slots of the two rings refer to as many objects as there are
\* slots, default-initialised ones included; one spreading step leaves every
\* frame of the FFT ring as it was (the frame just appended is still the raw
\* one), leaves every slot of the spread ring other than the one at the
\* cursor and those 1, 3 and 6 behind it as it was, changes no other
\* object, and so does to the frames what it would do to rings of values.
C30_SpreadingTouchesOnlyItsSlots ==
    /\ [](fft_refs # NoRing =>
            Cardinality(SlotRefs) = Len(fft_refs.buffer) + Len(spread_refs.buffer))
    /\ [][AppendAndSpread =>
            /\ \A j \in 0..(fft_refs.buffer_size - 1) :
                  j # fft_refs.position =>
                    /\ getitem(fft_refs', j) = getitem(fft_refs, j)
                    /\ FrameIn(vectors', fft_refs', j) = FrameIn(vectors, fft_refs, j)
            /\ FrameIn(vectors', fft_refs', fft_refs.position) \in FrameInputs
            /\ \A j \in 0..(spread_refs.buffer_size - 1) :
                  j \notin WrittenSlots =>
                    /\ getitem(spread_refs', j) = getitem(spread_refs, j)
                    /\ FrameIn(vectors', spread_refs', j) = FrameIn(vectors, spread_refs, j)
            /\ \A ref \in 1..Len(vectors) :
                  ref \notin {getitem(spread_refs, j) : j \in WrittenSlots}
                    => vectors'[ref] = vectors[ref]
            /\ FramesOf(vectors', spread_refs') =
                  do_peak_spreading(
                    [fft_outputs        |-> FramesOf(vectors', fft_refs'),
                     spread_ffts_output |-> FramesOf(vectors, spread_refs)]
                  ).spread_ffts_output]_vars

\* after the first step on a line spectrum: the three slots behind the
\* cursor hold the spread frame, the default slots between them are still
\* all zero, and the FFT ring holds the raw frame
C30_Witness ==
    /\ fft_refs # NoRing
    /\ fft_refs.num_written = 1
    /\ FrameIn(vectors, fft_refs, 0) = Spike
    /\ FrameIn(vectors, spread_refs, 0) # Spike
    /\ FrameIn(vectors, spread_refs, 0 - 1) = FrameIn(vectors, spread_refs, 0)
    /\ FrameIn(vectors, spread_refs, 0 - 3) = FrameIn(vectors, spread_refs, 0)
    /\ FrameIn(vectors, spread_refs, 0 - 6) = FrameIn(vectors, spread_refs, 0)
    /\ FrameIn(vectors, spread_refs, 0 - 2) = ZeroFrame
    /\ FrameIn(vectors, spread_refs, 0 - 4) = ZeroFrame
    /\ FrameIn(vectors, fft_refs, 0 - 1) = ZeroFrame

\* the four frames one step writes, after the step: the one appended at
\* the old cursor and those 1, 3 and 6 behind it
StepFrame(o) == FrameIn(vectors', spread_refs', spread_refs.position + o)

\* C21: one spreading step with the cursor at pos sets, for every bin p,
\* slot pos-1 to max(old, new[p]), then slot pos-3 to max(old, the value just
\* written), then slot pos-6 likewise, new being the frame appended at pos;
\* so slot(pos-6)[p] >= slot(pos-3)[p] >= slot(pos-1)[p] >= new[p] after
\* the step, and no value of a slot other than the one append overwrites
\* decreases.
C21_BackSpreadRunningMax ==
    [][AppendAndSpread =>
        /\ \A p \in 0..(NumBins - 1) :
              LET new  == Bin(StepFrame(0), p)
                  old1 == Bin(FrameIn(vectors, spread_refs, spread_refs.position - 1), p)
                  old3 == Bin(FrameIn(vectors, spread_refs, spread_refs.position - 3), p)
                  old6 == Bin(FrameIn(vectors, spread_refs, spread_refs.position - 6), p)
              IN  /\ Bin(StepFrame(-1), p) = Max(old1, new)
                  /\ Bin(StepFrame(-3), p) = Max(old3, Max(old1, new))
                  /\ Bin(StepFrame(-6), p) = Max(old6, Max(old3, Max(old1, new)))
                  /\ Bin(StepFrame(-6), p) >= Bin(StepFrame(-3), p)
                  /\ Bin(StepFrame(-3), p) >= Bin(StepFrame(-1), p)
                  /\ Bin(StepFrame(-1), p) >= new
        /\ \A j \in 0..(spread_refs.buffer_size - 1) :
              j # spread_refs.position =>
                \A p \in 0..(NumBins - 1) :
                    Bin(FrameIn(vectors', spread_refs', j), p)
                      >= Bin(FrameIn(vectors, spread_refs, j), p)]_vars

\* the ring has gone round, and at bin 0 the frames 6, 3 and 1 behind the
\* newest hold strictly more than the newest: values kept from falling
\* spectra against a line spectrum appended last
C21_Witness ==
    /\ fft_refs # NoRing
    /\ spread_refs.num_written > SpreadRingSize
    /\ FrameIn(vectors, fft_refs, fft_refs.position - 1) = Spike
    /\ Bin(FrameIn(vectors, spread_refs, spread_refs.position - 2), 0)
          > Bin(FrameIn(vectors, spread_refs, spread_refs.position - 1), 0)
    /\ Bin(FrameIn(vectors, spread_refs, spread_refs.position - 7), 0)
          >= Bin(FrameIn(vectors, spread_refs, spread_refs.position - 4), 0)
    /\ Bin(FrameIn(vectors, spread_refs, spread_refs.position - 2), 10) = 100

\* the raw frame a step appended to the FFT ring, after the step
StepRawFrame == FrameIn(vectors', fft_refs', fft_refs.position)

\* C22: the spread frame a step appends has, at every bin i up to the
\* third-last, the greatest of the raw frame's values at i, i+1 and i+2,
\* and at the last two bins the raw frame's own values: updating in place
\* from the left gives what the unmodified input gives.
C22_FrequencySpreadOfOriginal ==
    [][AppendAndSpread =>
        /\ Len(StepFrame(0)) = NumBins
        /\ \A i \in 0..(NumBins - 3) :
              Bin(StepFrame(0), i) =
                 Max(Bin(StepRawFrame, i),
                     Max(Bin(StepRawFrame, i + 1), Bin(StepRawFrame, i + 2)))
        /\ Bin(StepFrame(0), NumBins - 2) = Bin(StepRawFrame, NumBins - 2)
        /\ Bin(StepFrame(0), NumBins - 1) = Bin(StepRawFrame, NumBins - 1)]_vars

\* the line spectrum just spread: its line at bin 10 shows at bins 8 to 10
\* only, and the line at the last bin at the last three only, the
\* second-last keeping its raw value
C22_Witness ==
    /\ fft_refs # NoRing
    /\ fft_refs.num_written >= 1
    /\ FrameIn(vectors, fft_refs, fft_refs.position - 1) = Spike
    /\ LET spread_last_fft == FrameIn(vectors, spread_refs, spread_refs.position - 1)
       IN  /\ Bin(spread_last_fft, 7) = MagnitudeFloor
           /\ Bin(spread_last_fft, 8) = 100
           /\ Bin(spread_last_fft, 10) = 100
           /\ Bin(spread_last_fft, 11) = MagnitudeFloor
           /\ Bin(spread_last_fft, NumBins - 3) = 50
           /\ Bin(spread_last_fft, NumBins - 2) = MagnitudeFloor
           /\ Bin(spread_last_fft, NumBins - 1) = 50

====
